---- MODULE Spec2Model ----
(***************************************************************************)
(* A model of marcopolo-go: the tool catalog (internal/tools), the tools   *)
(* table and its repository (migrations, internal/db), the index command   *)
(* (cmd/index.go), the dispatch table and the two MCP handlers             *)
(* (internal/mcp).                                                         *)
(*                                                                         *)
(* Conventions.  Timestamps are positive integers, NullTime is SQL NULL.   *)
(* Embeddings are non-zero integer vectors of dimension 2 with an integer  *)
(* Euclidean norm, so every cosine similarity is an exact number of        *)
(* hundredths; NullVec is SQL NULL.  Scores, distances and thresholds are  *)
(* integers counting hundredths (0.7 is 70, 0.99 is 99).  Nil is Go's nil  *)
(* for *string and error values.                                           *)
(***************************************************************************)
EXTENDS Integers, Sequences, FiniteSets, TLC

VARIABLES
    tools,      \* committed rows of table tools
    nextId,     \* next value of the bigserial sequence behind tools.id
    clock,      \* the database clock read by now()
    tx,         \* the transactions (connections): tx[t] is a record
    txCount,    \* number of transactions begun so far
    committedLog, \* the UpsertTx calls of the committed transactions, in commit order
    qres,       \* the last call of FindSimilarWithScore: arguments and return
    registry,   \* tools.registry, the catalog
    panicked,   \* the value the process panicked with, Nil while it runs
    regCall,    \* the last call of Register: argument and catalog before it
    handlers,   \* globalRegistry.handlers, the dispatch table
    req,        \* the MCP requests: req[r] is a record
    invoked,    \* the invocations of tool handlers, in order
    mu,         \* globalRegistry.mu: the goroutine holding the write lock (0: none)
                \* and the goroutines holding a read lock
    goroutines  \* goroutines calling into the dispatch table or the catalog:
                \* goroutines[g] is a record with the call and its position

storeVars == <<tools, nextId, clock, tx, txCount, committedLog>>
catalogVars == <<registry, panicked, regCall>>
mcpVars == <<handlers, req, invoked>>
goVars == <<mu, goroutines>>
vars == <<storeVars, qres, catalogVars, mcpVars, goVars>>

----------------------------------------------------------------------------
(* Bounds of the model *)

MaxTxns == 2
MaxClock == 2
MaxRegistry == 2
MaxGoroutines == 3

Txs == {1, 2}

----------------------------------------------------------------------------
(* Values *)

Nil == "nil"
NullTime == 0
NullVec == <<>>

Names == {"a", "b"}
Vectors == {<<1, 0>>, <<3, 4>>, <<4, 3>>}

SeqToSet(s) == {s[i] : i \in 1..Len(s)}

----------------------------------------------------------------------------
(* internal/tools: ToolDefinition, DescribeTool *)

NoParameters == [present |-> FALSE, properties |-> {}, required |-> <<>>]

ToolDefinition(name, description, parameters) ==
    [name |-> name, description |-> description, parameters |-> parameters]

\* The parameter names of the model, in the order encoding/json writes map
\* keys (sorted).
KeyOrder == <<"x", "y">>
Keys == SeqToSet(KeyOrder)

\* json.Marshal of one entry of Properties
MarshalProperty(key) ==
    "\"" \o key \o "\":{\"type\":\"string\",\"description\":\"\"}"

RECURSIVE JoinProperties(_)
JoinProperties(keys) ==
    IF Len(keys) = 0 THEN ""
    ELSE IF Len(keys) = 1 THEN MarshalProperty(keys[1])
    ELSE MarshalProperty(keys[1]) \o "," \o JoinProperties(Tail(keys))

RECURSIVE JoinStrings(_)
JoinStrings(strings) ==
    IF Len(strings) = 0 THEN ""
    ELSE IF Len(strings) = 1 THEN "\"" \o strings[1] \o "\""
    ELSE "\"" \o strings[1] \o "\"," \o JoinStrings(Tail(strings))

\* json.Marshal of *Parameters: a nil map and a nil slice are written null
MarshalParameters(p) ==
    "{\"properties\":" \o
    (IF p.properties = {} THEN "null"
     ELSE "{" \o JoinProperties(SelectSeq(KeyOrder, LAMBDA k : k \in p.properties)) \o "}") \o
    ",\"required\":" \o
    (IF Len(p.required) = 0 THEN "null" ELSE "[" \o JoinStrings(p.required) \o "]") \o
    "}"

\* Faulty variant: a nil *Parameters is marshalled too
DescribeToolAlwaysSchema(toolDef) ==
    [Text |-> "Tool: " \o toolDef.name \o "\nDescription: " \o toolDef.description,
     InputSchema |-> IF toolDef.parameters.present
                     THEN MarshalParameters(toolDef.parameters)
                     ELSE "null"]

\* DescribeTool; json.Marshal of a *Parameters does not fail, so the error
\* is always nil and left out
DescribeTool(toolDef) ==
    [Text |-> "Tool: " \o toolDef.name \o "\nDescription: " \o toolDef.description,
     InputSchema |-> IF toolDef.parameters.present
                     THEN MarshalParameters(toolDef.parameters)
                     ELSE Nil]


\* Faulty variant: only the first required key is looked up.
RECURSIVE ParametersValidateFirst(_, _)
ParametersValidateFirst(properties, required) ==
    IF Len(required) = 0 THEN Nil
    ELSE IF required[1] \notin properties
    THEN "required key \"" \o required[1] \o "\" not found in properties"
    ELSE Nil

\* Parameters.Validate: the loop over p.Required, returning at the first key
\* that is not in p.Properties
RECURSIVE ParametersValidate(_, _)
ParametersValidate(properties, required) ==
    IF Len(required) = 0 THEN Nil
    ELSE IF required[1] \notin properties
    THEN "required key \"" \o required[1] \o "\" not found in properties"
    ELSE ParametersValidate(properties, Tail(required))

\* ToolDefinition.Validate
Validate(t) ==
    IF t.parameters.present
    THEN ParametersValidate(t.parameters.properties, t.parameters.required)
    ELSE Nil

\* The catalog of a process that has registered nothing yet.
CatalogInit ==
    /\ registry = <<>>
    /\ panicked = Nil
    /\ regCall = [called |-> FALSE]

\* Register: a panic ends the process, nothing runs after it.
Register(tool) ==
    /\ panicked = Nil
    /\ Len(registry) < MaxRegistry
    /\ LET err == Validate(tool)
       IN  IF err # Nil
           THEN /\ panicked' = "invalid tool registration: " \o tool.name \o " - " \o err
                /\ registry' = registry
           ELSE /\ registry' = Append(registry, tool)
                /\ panicked' = panicked
    /\ regCall' = [called |-> TRUE, tool |-> tool, before |-> registry]
    /\ UNCHANGED <<storeVars, qres, mcpVars, goVars>>

\* Faulty variant: the newest definition first
GetAllToolsNewestFirst ==
    [i \in 1..Len(registry) |-> registry[Len(registry) + 1 - i]]

\* GetAllTools
GetAllTools == registry

----------------------------------------------------------------------------
(* internal/embeddings: the response of the embeddings endpoint and what   *)
(* OpenAIProvider.GenerateEmbedding makes of it                            *)

GatewayVectors == {<<1, 0>>, <<3, 4>>}

Responses ==
    {[failed |-> TRUE, data |-> <<>>]} \cup
    {[failed |-> FALSE, data |-> d] :
        d \in {<<>>} \cup {<<v>> : v \in GatewayVectors} \cup {<<<<1, 0>>, <<3, 4>>>>}}

\* Faulty variant: the first embedding of a longer response is taken
GenerateEmbeddingFirst(resp) ==
    IF resp.failed
    THEN [vec |-> NullVec, err |-> "openai embedding request failed"]
    ELSE IF Len(resp.data) = 0
    THEN [vec |-> NullVec, err |-> "expected 1 embedding, got 0"]
    ELSE [vec |-> resp.data[1], err |-> Nil]

\* The components of the model's vectors are integers, which the conversion
\* from float64 to float32 leaves as they are.
GenerateEmbedding(resp) ==
    IF resp.failed
    THEN [vec |-> NullVec, err |-> "openai embedding request failed"]
    ELSE IF Len(resp.data) # 1
    THEN [vec |-> NullVec, err |-> "expected 1 embedding, got " \o ToString(Len(resp.data))]
    ELSE [vec |-> resp.data[1], err |-> Nil]

----------------------------------------------------------------------------
(* internal/models and the tools table *)

NewTool(def, description, embedding) ==
    [Name |-> def.name, Description |-> description.Text,
     Embedding |-> embedding, InputSchema |-> description.InputSchema]

Row(id, createdAt, updatedAt, deletedAt, name, description, embedding, schema) ==
    [id |-> id, createdAt |-> createdAt, updatedAt |-> updatedAt,
     deletedAt |-> deletedAt, name |-> name, description |-> description,
     embedding |-> embedding, input_schema |-> schema]

Live(rows) == {r \in rows : r.deletedAt = NullTime}

\* tools_name_unique_idx: UNIQUE (name) WHERE deleted_at IS NULL
UniqueLiveNames(rows) ==
    \A r1 \in Live(rows), r2 \in Live(rows) : r1.name = r2.name => r1 = r2

----------------------------------------------------------------------------
(* Transactions.  A transaction sees the committed rows overlaid with the  *)
(* row versions it wrote itself (READ COMMITTED); now() is the time the    *)
(* transaction began.                                                      *)

IdleTx ==
    [status |-> "idle", now |-> 0, writes |-> {},
     log |-> <<>>, catalog |-> <<>>, pos |-> 0, ret |-> "none"]

View(t) ==
    {r \in tools : \A w \in tx[t].writes : w.id # r.id} \cup tx[t].writes

\* The statement waits while another open transaction holds an uncommitted
\* version of a live row of that name (index entry or row lock).
Blocked(t, name) ==
    \E u \in Txs \ {t} :
        /\ tx[u].status = "open"
        /\ \E w \in Live(tx[u].writes) : w.name = name

\* Faulty variant: the conflicting row is replaced by the proposed row (new id, new
\* created_at) instead of being updated in place.
UpsertRowReplacing(view, tool, now, id) ==
    Row(id, now, now, NullTime, tool.Name, tool.Description,
        tool.Embedding, tool.InputSchema)

\* Faulty variant: the conflict target ignores the partial index predicate, so a
\* soft-deleted row of the same name does not count as absent and a live
\* row is only looked for by description.
UpsertRowByDescription(view, tool, now, id) ==
    LET conflict == {r \in Live(view) : r.name = tool.Name /\ r.description = tool.Description}
    IN  IF conflict # {}
        THEN LET old == CHOOSE r \in conflict : TRUE
             IN  [old EXCEPT !.embedding = tool.Embedding,
                             !.input_schema = tool.InputSchema,
                             !.updatedAt = now]
        ELSE Row(id, now, now, NullTime, tool.Name, tool.Description,
                 tool.Embedding, tool.InputSchema)

\* Faulty variant: the update also sets created_at
UpsertRowRecreated(view, tool, now, id) ==
    LET conflict == {r \in Live(view) : r.name = tool.Name}
    IN  IF conflict # {}
        THEN LET old == CHOOSE r \in conflict : TRUE
             IN  [old EXCEPT !.description = tool.Description,
                             !.embedding = tool.Embedding,
                             !.input_schema = tool.InputSchema,
                             !.createdAt = now,
                             !.updatedAt = now]
        ELSE Row(id, now, now, NullTime, tool.Name, tool.Description,
                 tool.Embedding, tool.InputSchema)

\* Faulty variant: the update leaves the embedding of the row as it was
UpsertRowKeepingEmbedding(view, tool, now, id) ==
    LET conflict == {r \in Live(view) : r.name = tool.Name}
    IN  IF conflict # {}
        THEN LET old == CHOOSE r \in conflict : TRUE
             IN  [old EXCEPT !.description = tool.Description,
                             !.input_schema = tool.InputSchema,
                             !.updatedAt = now]
        ELSE Row(id, now, now, NullTime, tool.Name, tool.Description,
                 tool.Embedding, tool.InputSchema)

\* INSERT ... ON CONFLICT (name) WHERE deleted_at IS NULL DO UPDATE SET ...
\* evaluated against the rows `view`; id is the value nextval() produced
\* for the proposed row, now is now().
UpsertRow(view, tool, now, id) ==
    LET conflict == {r \in Live(view) : r.name = tool.Name}
    IN  IF conflict # {}
        THEN LET old == CHOOSE r \in conflict : TRUE
             IN  [old EXCEPT !.description = tool.Description,
                             !.embedding = tool.Embedding,
                             !.input_schema = tool.InputSchema,
                             !.updatedAt = now]
        ELSE Row(id, now, now, NullTime, tool.Name, tool.Description,
                 tool.Embedding, tool.InputSchema)

\* PostgresToolRepository.UpsertTx: runs the statement in transaction t and
\* scans RETURNING id, created_at, updated_at into the tool.
UpsertTx(t, tool) ==
    LET row == UpsertRow(View(t), tool, tx[t].now, nextId)
        entry == [name |-> tool.Name, description |-> tool.Description,
                  embedding |-> tool.Embedding, input_schema |-> tool.InputSchema,
                  ID |-> row.id, CreatedAt |-> row.createdAt,
                  UpdatedAt |-> row.updatedAt]
    IN  [tx[t] EXCEPT !.writes = {w \in @ : w.id # row.id} \cup {row},
                      !.log = Append(@, entry)]

----------------------------------------------------------------------------
(* Inputs *)

Params1 == [present |-> TRUE, properties |-> {"x"}, required |-> <<"x">>]

DefA1 == ToolDefinition("a", "one", NoParameters)
DefA2 == ToolDefinition("a", "two", Params1)
DefB  == ToolDefinition("b", "one", Params1)

Catalogs == {<<>>, <<DefA1>>, <<DefA2, DefB>>, <<DefA1, DefA2>>}

\* Contents the table can have before the first transaction of a run: empty,
\* or rows left by earlier use of the schema (a soft-deleted row, a live row
\* without embedding).
SeedRows ==
    {Row(1, 1, 1, 1, "a", "Retired", <<1, 0>>, Nil),
     Row(2, 1, 1, NullTime, "b", "Pending", NullVec, Nil)}

----------------------------------------------------------------------------
(* internal/mcp: the dispatch table and the requests before any is made *)

DefaultMaxResults == 5
DefaultMinRelevanceScore == 70

Reqs == {1, 2}

NoRet == [result |-> [IsError |-> FALSE, Text |-> ""], err |-> Nil]

NewReq ==
    [kind |-> "none", pc |-> "new", args |-> [malformed |-> FALSE],
     resp |-> [failed |-> FALSE, data |-> <<>>], fault |-> FALSE,
     inTable |-> FALSE, outcome |-> [value |-> "", err |-> Nil, marshals |-> TRUE],
     rows |-> <<>>, calls |-> <<>>, ret |-> NoRet]

McpInit ==
    /\ handlers = [n \in {} |-> Nil]
    /\ req = [r \in Reqs |-> NewReq]
    /\ invoked = <<>>

\* No goroutine has called yet, and the mutex is free
Goroutines == 1..MaxGoroutines

NewGoroutine == [pc |-> "idle"]

GoInit ==
    /\ mu = [writer |-> 0, readers |-> {}]
    /\ goroutines = [g \in Goroutines |-> NewGoroutine]

----------------------------------------------------------------------------
(* PostgresToolRepository.FindSimilarWithScore *)

Dot(a, b) == a[1] * b[1] + a[2] * b[2]

Norm(a) == CHOOSE n \in 1..5 : n * n = Dot(a, a)

\* embedding <=> $1, pgvector's cosine distance, in hundredths
CosineDistance(a, b) == 100 - ((Dot(a, b) * 100) \div (Norm(a) * Norm(b)))

\* (1 - (embedding <=> $1))::float8 AS relevance_score
RelevanceScore(a, b) == 100 - CosineDistance(a, b)

\* Faulty variant: the threshold is compared with > instead of >=.
WhereStrict(rows, embedding, minScore) ==
    {r \in rows :
        /\ r.deletedAt = NullTime
        /\ r.embedding # NullVec
        /\ 100 - CosineDistance(r.embedding, embedding) > minScore}

\* Faulty variant: the filter on deleted_at is missing.
WhereAnyRow(rows, embedding, minScore) ==
    {r \in rows :
        /\ r.embedding # NullVec
        /\ 100 - CosineDistance(r.embedding, embedding) >= minScore}

\* WHERE deleted_at IS NULL AND embedding IS NOT NULL
\*   AND (1 - (embedding <=> $1)) >= $2
Where(rows, embedding, minScore) ==
    {r \in rows :
        /\ r.deletedAt = NullTime
        /\ r.embedding # NullVec
        /\ 100 - CosineDistance(r.embedding, embedding) >= minScore}

Position(heap, id) == CHOOSE i \in 1..Len(heap) : heap[i] = id

\* Faulty variant: ORDER BY embedding <=> $1 DESC.
RECURSIVE OrderByDesc(_, _, _)
OrderByDesc(rows, embedding, heap) ==
    IF rows = {} THEN <<>>
    ELSE LET first == CHOOSE r \in rows : \A o \in rows :
                 \/ CosineDistance(r.embedding, embedding) > CosineDistance(o.embedding, embedding)
                 \/ /\ CosineDistance(r.embedding, embedding) = CosineDistance(o.embedding, embedding)
                    /\ Position(heap, r.id) <= Position(heap, o.id)
         IN  <<first>> \o OrderByDesc(rows \ {first}, embedding, heap)

\* ORDER BY embedding <=> $1: ascending distance; rows at the same distance
\* come out in the order the scan meets them, which is the order of `heap`
\* (a sequence of row ids).
RECURSIVE OrderBy(_, _, _)
OrderBy(rows, embedding, heap) ==
    IF rows = {} THEN <<>>
    ELSE LET first == CHOOSE r \in rows : \A o \in rows :
                 \/ CosineDistance(r.embedding, embedding) < CosineDistance(o.embedding, embedding)
                 \/ /\ CosineDistance(r.embedding, embedding) = CosineDistance(o.embedding, embedding)
                    /\ Position(heap, r.id) <= Position(heap, o.id)
         IN  <<first>> \o OrderBy(rows \ {first}, embedding, heap)

\* Faulty variant: one row more than the limit.
LimitPlusOne(s, limit) == SubSeq(s, 1, IF limit + 1 < Len(s) THEN limit + 1 ELSE Len(s))

\* LIMIT $3
Limit(s, limit) == SubSeq(s, 1, IF limit < Len(s) THEN limit ELSE Len(s))

ToolWithScore(r, embedding) ==
    [ID |-> r.id, CreatedAt |-> r.createdAt, UpdatedAt |-> r.updatedAt,
     DeletedAt |-> r.deletedAt, Name |-> r.name, Description |-> r.description,
     Embedding |-> r.embedding, InputSchema |-> r.input_schema,
     RelevanceScore |-> RelevanceScore(r.embedding, embedding)]

\* Faulty variant: an empty result set is reported as an error (sql.ErrNoRows).
FindSimilarWithScoreNoRows(rows, embedding, minScore, limit, heap, fault) ==
    IF fault \/ limit < 0 \/ Where(rows, embedding, minScore) = {}
    THEN [results |-> <<>>, err |-> "db error"]
    ELSE LET ordered == OrderBy(Where(rows, embedding, minScore), embedding, heap)
             page == Limit(ordered, limit)
         IN  [results |-> [i \in 1..Len(page) |-> ToolWithScore(page[i], embedding)],
              err |-> Nil]

\* The call on the committed rows `rows`.  fault: the driver reports an error
\* (connection lost, context cancelled).  A negative LIMIT is an error of the
\* statement.
FindSimilarWithScore(rows, embedding, minScore, limit, heap, fault) ==
    IF fault \/ limit < 0
    THEN [results |-> <<>>, err |-> "db error"]
    ELSE LET ordered == OrderBy(Where(rows, embedding, minScore), embedding, heap)
             page == Limit(ordered, limit)
         IN  [results |-> [i \in 1..Len(page) |-> ToolWithScore(page[i], embedding)],
              err |-> Nil]

\* The orders in which a scan can meet the rows: by ascending id, and, after
\* updates have moved row versions, by descending id.
RECURSIVE Ascending(_)
Ascending(ids) ==
    IF ids = {} THEN <<>>
    ELSE LET m == CHOOSE i \in ids : \A j \in ids : i <= j
         IN  <<m>> \o Ascending(ids \ {m})

Reverse(s) == [i \in 1..Len(s) |-> s[Len(s) + 1 - i]]

HeapOrders(rows) ==
    LET asc == Ascending({r.id : r \in rows}) IN {asc, Reverse(asc)}

----------------------------------------------------------------------------
(* Actions of the store and the index command *)

Init ==
    /\ tools \in {{}, SeedRows}
    /\ nextId = 3
    /\ clock = 1
    /\ tx = [t \in Txs |-> IdleTx]
    /\ txCount = 0
    /\ committedLog = <<>>
    /\ qres = [called |-> FALSE]
    /\ CatalogInit
    /\ McpInit
    /\ GoInit

Tick ==
    /\ clock < MaxClock
    /\ clock' = clock + 1
    /\ UNCHANGED <<tools, nextId, tx, txCount, committedLog, qres, catalogVars, mcpVars, goVars>>

\* indexTools up to the loop: conn.Beginx(), allTools := tools.GetAllTools()
IndexBegin(t, cat) ==
    /\ tx[t].status = "idle"
    /\ txCount < MaxTxns
    /\ tx' = [tx EXCEPT ![t] = [IdleTx EXCEPT !.status = "open", !.now = clock, !.catalog = cat,
                                             !.pos = 1]]
    /\ txCount' = txCount + 1
    /\ UNCHANGED <<tools, nextId, clock, committedLog, qres, catalogVars, mcpVars, goVars>>

\* one iteration of the loop of indexTools: DescribeTool, GenerateEmbedding
\* and, when that returned a vector, UpsertTx; when it returned an error
\* indexTools returns it and the deferred tx.Rollback() runs
IndexStep(t, resp) ==
    /\ tx[t].status = "open"
    /\ tx[t].pos <= Len(tx[t].catalog)
    /\ LET toolDef == tx[t].catalog[tx[t].pos]
           toolDescription == DescribeTool(toolDef)
           embedding == GenerateEmbedding(resp)
       IN  IF embedding.err # Nil
           THEN /\ tx' = [tx EXCEPT ![t] = [IdleTx EXCEPT !.ret = "err"]]
                /\ nextId' = nextId
           ELSE /\ ~Blocked(t, toolDef.name)
                /\ tx' = [tx EXCEPT ![t] =
                       [UpsertTx(t, NewTool(toolDef, toolDescription, embedding.vec))
                           EXCEPT !.pos = @ + 1]]
                /\ nextId' = nextId + 1
    /\ UNCHANGED <<tools, clock, txCount, committedLog, qres, catalogVars, mcpVars, goVars>>

\* Faulty variant: the commit leaves only the rows the pass wrote
CommitReplacing(t) ==
    /\ tx[t].status = "open"
    /\ tx[t].pos > Len(tx[t].catalog)
    /\ tools' = tx[t].writes
    /\ committedLog' = committedLog \o tx[t].log
    /\ tx' = [tx EXCEPT ![t] = [IdleTx EXCEPT !.ret = "nil"]]
    /\ UNCHANGED <<nextId, clock, txCount, qres, catalogVars, mcpVars, goVars>>

\* tx.Commit()
Commit(t) ==
    /\ tx[t].status = "open"
    /\ tx[t].pos > Len(tx[t].catalog)
    /\ tools' = View(t)
    /\ committedLog' = committedLog \o tx[t].log
    /\ tx' = [tx EXCEPT ![t] = [IdleTx EXCEPT !.ret = "nil"]]
    /\ UNCHANGED <<nextId, clock, txCount, qres, catalogVars, mcpVars, goVars>>

\* Faulty variant: the statements ran outside the transaction, so the rows
\* written before the failure stay
RollbackApplying(t) ==
    /\ tx[t].status = "open"
    /\ tools' = View(t)
    /\ tx' = [tx EXCEPT ![t] = [IdleTx EXCEPT !.ret = "err"]]
    /\ UNCHANGED <<nextId, clock, txCount, committedLog, qres, catalogVars, mcpVars, goVars>>

\* an error return of UpsertTx or tx.Commit() and the deferred tx.Rollback()
Rollback(t) ==
    /\ tx[t].status = "open"
    /\ tx' = [tx EXCEPT ![t] = [IdleTx EXCEPT !.ret = "err"]]
    /\ UNCHANGED <<tools, nextId, clock, txCount, committedLog, qres, catalogVars, mcpVars, goVars>>

Next ==
    \/ Tick
    \/ \E t \in Txs, cat \in Catalogs : IndexBegin(t, cat)
    \/ \E t \in Txs, resp \in Responses : IndexStep(t, resp)
    \/ \E t \in Txs : Commit(t)
    \/ \E t \in Txs : Rollback(t)

Spec == Init /\ [][Next]_vars

----------------------------------------------------------------------------
(* internal/mcp: dispatch table *)

\* RegisterExecutable: the write under globalRegistry.mu.Lock()
RegisterExecutable(toolName, handler) ==
    /\ handlers' = [n \in DOMAIN handlers \cup {toolName} |->
                       IF n = toolName THEN handler ELSE handlers[n]]
    /\ UNCHANGED <<req, invoked, storeVars, qres, catalogVars, goVars>>

\* GetExecutableTool: the read under globalRegistry.mu.RLock()
GetExecutableTool(name) ==
    IF name \in DOMAIN handlers
    THEN [handler |-> handlers[name], exists |-> TRUE]
    ELSE [handler |-> Nil, exists |-> FALSE]

----------------------------------------------------------------------------
(* internal/mcp: results of the handlers *)

NewToolResultError(text) == [IsError |-> TRUE, Text |-> text]
NewToolResultText(text) == [IsError |-> FALSE, Text |-> text]

\* return mcp.NewToolResultError(fmt.Sprintf("Invalid arguments: %v", err)), nil
InvalidArguments(err) ==
    [result |-> NewToolResultError("Invalid arguments: " \o err), err |-> Nil]

\* return mcp.NewToolResultError(fmt.Sprintf("Failed to generate embedding: %v", err)), nil
EmbeddingFailed(err) ==
    [result |-> NewToolResultError("Failed to generate embedding: " \o err), err |-> Nil]

\* return mcp.NewToolResultError(fmt.Sprintf("Database search failed: %v", err)), nil
DatabaseSearchFailed(err) ==
    [result |-> NewToolResultError("Database search failed: " \o err), err |-> Nil]

\* Faulty variant: the message does not name the tool.
ToolNotFoundAnonymous(toolName) ==
    [result |-> NewToolResultError("Tool not found"), err |-> Nil]

\* return mcp.NewToolResultError(fmt.Sprintf("Tool not found: %s", input.ToolName)), nil
ToolNotFound(toolName) ==
    [result |-> NewToolResultError("Tool not found: " \o toolName), err |-> Nil]

\* Faulty variant: the handler's error is returned as the Go error.
ToolExecutionPropagated(err) ==
    [result |-> NewToolResultText(""), err |-> err]

\* return mcp.NewToolResultError(fmt.Sprintf("Tool execution failed: %v", err)), nil
ToolExecutionFailed(err) ==
    [result |-> NewToolResultError("Tool execution failed: " \o err), err |-> Nil]

\* return mcp.NewToolResultError(fmt.Sprintf("Failed to marshal result: %v", err)), nil
MarshalResultFailed(err) ==
    [result |-> NewToolResultError("Failed to marshal result: " \o err), err |-> Nil]

\* return mcp.NewToolResultText(...), nil
TextResult(text) == [result |-> NewToolResultText(text), err |-> Nil]

----------------------------------------------------------------------------
(* internal/mcp: HandleSearchTools *)

Absent == [present |-> FALSE, value |-> 0]
Present(v) == [present |-> TRUE, value |-> v]

\* Arguments of a search_tools request: not decodable into SearchToolsInput,
\* or an object with query and the two optional numbers.
SearchArguments ==
    {[malformed |-> TRUE]} \cup
    {[malformed |-> FALSE, query |-> "holidays", max_results |-> m,
      min_relevance_score |-> s] :
        m \in {Absent, Present(0), Present(2), Present(-1)},
        s \in {Absent, Present(0), Present(99)}}

\* json.Unmarshal into SearchToolsInput, then the defaults
SearchToolsInput(args) ==
    LET MaxResults == IF args.max_results.present THEN args.max_results.value ELSE 0
        MinRelevanceScore ==
            IF args.min_relevance_score.present THEN args.min_relevance_score.value ELSE 0
    IN  [Query |-> args.query,
         MaxResults |-> IF MaxResults = 0 THEN DefaultMaxResults ELSE MaxResults,
         MinRelevanceScore |-> IF MinRelevanceScore = 0 THEN DefaultMinRelevanceScore
                               ELSE MinRelevanceScore]

\* toolRepositoryAdapter.FindSimilarWithScore: db.ToolWithScore to mcp.ToolWithScore
Adapter(ret) ==
    [results |-> [i \in 1..Len(ret.results) |->
                    [ID |-> ret.results[i].ID, Name |-> ret.results[i].Name,
                     Description |-> ret.results[i].Description,
                     InputSchema |-> ret.results[i].InputSchema,
                     RelevanceScore |-> ret.results[i].RelevanceScore]],
     err |-> ret.err]

\* Faulty variant: a row without schema gets the JSON value null as parameters
ToolSearchResultsNullSchema(dbTools) ==
    [i \in 1..Len(dbTools) |->
        [Name |-> dbTools[i].Name, Description |-> dbTools[i].Description,
         Parameters |-> IF dbTools[i].InputSchema = Nil THEN "null"
                        ELSE dbTools[i].InputSchema,
         RelevanceScore |-> dbTools[i].RelevanceScore]]

\* the loop that converts dbTools to []ToolSearchResult
ToolSearchResults(dbTools) ==
    [i \in 1..Len(dbTools) |->
        [Name |-> dbTools[i].Name, Description |-> dbTools[i].Description,
         Parameters |-> dbTools[i].InputSchema,
         RelevanceScore |-> dbTools[i].RelevanceScore]]

\* Scores are held in hundredths. json.Marshal of a float64 writes the
\* shortest decimal: 1, 0.7, 0.96, -0.28
MarshalFloat(h) ==
    LET a == IF h < 0 THEN -h ELSE h
        frac == a % 100
    IN  (IF h < 0 THEN "-" ELSE "") \o ToString(a \div 100) \o
        (IF frac = 0 THEN ""
         ELSE IF frac % 10 = 0 THEN "." \o ToString(frac \div 10)
         ELSE "." \o ToString(frac \div 10) \o ToString(frac % 10))

\* fmt.Sprintf("%.2f", score): always two decimals
Sprintf2f(h) ==
    LET a == IF h < 0 THEN -h ELSE h
    IN  (IF h < 0 THEN "-" ELSE "") \o ToString(a \div 100) \o "." \o
        ToString((a % 100) \div 10) \o ToString(a % 10)

\* The text of a jsonb column as the driver hands it over: a blank follows
\* every colon and comma
SpacedSchema == "{\"type\": \"object\"}"

\* json.Marshal of a json.RawMessage: the bytes with the insignificant
\* white space taken out. SpacedSchema is the one text of the model that
\* has any.
Compact(raw) ==
    IF raw = SpacedSchema THEN "{\"type\":\"object\"}" ELSE raw

\* json.Marshal of a ToolSearchResult; parameters is omitted when empty
MarshalToolSearchResult(res) ==
    "{\"name\":\"" \o res.Name \o "\",\"description\":\"" \o res.Description \o "\"" \o
    (IF res.Parameters = Nil THEN "" ELSE ",\"parameters\":" \o Compact(res.Parameters)) \o
    ",\"relevance_score\":" \o MarshalFloat(res.RelevanceScore) \o "}"

RECURSIVE JoinResults(_)
JoinResults(results) ==
    IF Len(results) = 0 THEN ""
    ELSE IF Len(results) = 1 THEN MarshalToolSearchResult(results[1])
    ELSE MarshalToolSearchResult(results[1]) \o "," \o JoinResults(Tail(results))

\* json.Marshal of SearchToolsOutput
MarshalSearchToolsOutput(results, query) ==
    "{\"tools\":[" \o JoinResults(results) \o "],\"query\":\"" \o query \o "\"}"

\* fmt.Sprintf("No tools found matching: %q with minimum relevance score of %.2f", ...)
NoToolsFound(input) ==
    "No tools found matching: \"" \o input.Query \o
    "\" with minimum relevance score of " \o Sprintf2f(input.MinRelevanceScore)

\* Faulty variant: the empty result is marshalled like any other
SearchToolsReturnAlwaysPayload(results, input) ==
    TextResult(MarshalSearchToolsOutput(results, input.Query))

\* the end of HandleSearchTools, from len(results) == 0 on
SearchToolsReturn(results, input) ==
    IF Len(results) = 0
    THEN TextResult(NoToolsFound(input))
    ELSE TextResult(MarshalSearchToolsOutput(results, input.Query))

\* HandleSearchTools up to the call of GenerateEmbedding
HandleSearchToolsDecode(r, args) ==
    /\ req[r].pc = "new"
    /\ req' = [req EXCEPT ![r] =
          IF args.malformed
          THEN [@ EXCEPT !.kind = "search", !.args = args, !.pc = "done",
                         !.ret = InvalidArguments("json: cannot unmarshal")]
          ELSE [@ EXCEPT !.kind = "search", !.args = args, !.pc = "embedding"]]
    /\ UNCHANGED <<handlers, invoked, storeVars, qres, catalogVars, goVars>>

\* Faulty variant: a failed embedding call is made once more
HandleSearchToolsEmbedRetrying(r, resp) ==
    /\ req[r].kind = "search"
    /\ req[r].pc = "embedding"
    /\ LET input == SearchToolsInput(req[r].args)
           queryEmbedding == GenerateEmbedding(resp)
           embedCall == [op |-> "GenerateEmbedding", text |-> input.Query,
                         vec |-> queryEmbedding.vec, err |-> queryEmbedding.err]
           findCall == [op |-> "FindSimilarWithScore", embedding |-> queryEmbedding.vec,
                        minScore |-> input.MinRelevanceScore, limit |-> input.MaxResults]
       IN  req' = [req EXCEPT ![r] =
              IF queryEmbedding.err # Nil
              THEN IF Len(req[r].calls) = 0
                   THEN [@ EXCEPT !.resp = resp, !.calls = Append(@, embedCall)]
                   ELSE [@ EXCEPT !.resp = resp, !.pc = "done",
                                  !.calls = Append(@, embedCall),
                                  !.ret = EmbeddingFailed(queryEmbedding.err)]
              ELSE [@ EXCEPT !.resp = resp, !.pc = "querying",
                             !.calls = @ \o <<embedCall, findCall>>]]
    /\ UNCHANGED <<handlers, invoked, storeVars, qres, catalogVars, goVars>>

\* the embeddings endpoint answers: GenerateEmbedding returns, and on success
\* FindSimilarWithScore is called
HandleSearchToolsEmbed(r, resp) ==
    /\ req[r].kind = "search"
    /\ req[r].pc = "embedding"
    /\ LET input == SearchToolsInput(req[r].args)
           queryEmbedding == GenerateEmbedding(resp)
           embedCall == [op |-> "GenerateEmbedding", text |-> input.Query,
                         vec |-> queryEmbedding.vec, err |-> queryEmbedding.err]
           findCall == [op |-> "FindSimilarWithScore", embedding |-> queryEmbedding.vec,
                        minScore |-> input.MinRelevanceScore, limit |-> input.MaxResults]
       IN  req' = [req EXCEPT ![r] =
              IF queryEmbedding.err # Nil
              THEN [@ EXCEPT !.resp = resp, !.pc = "done",
                             !.calls = Append(@, embedCall),
                             !.ret = EmbeddingFailed(queryEmbedding.err)]
              ELSE [@ EXCEPT !.resp = resp, !.pc = "querying",
                             !.calls = @ \o <<embedCall, findCall>>]]
    /\ UNCHANGED <<handlers, invoked, storeVars, qres, catalogVars, goVars>>

\* the store answers: FindSimilarWithScore returns, and the rest of
\* HandleSearchTools
HandleSearchToolsQuery(r, heap, fault) ==
    /\ req[r].kind = "search"
    /\ req[r].pc = "querying"
    /\ LET input == SearchToolsInput(req[r].args)
           call == req[r].calls[Len(req[r].calls)]
           dbTools == Adapter(FindSimilarWithScore(tools, call.embedding, call.minScore,
                                                   call.limit, heap, fault))
           results == ToolSearchResults(dbTools.results)
       IN  req' = [req EXCEPT ![r] =
              [@ EXCEPT !.fault = fault, !.rows = dbTools.results, !.pc = "done",
                        !.ret = IF dbTools.err # Nil
                                THEN DatabaseSearchFailed(dbTools.err)
                                ELSE SearchToolsReturn(results, input)]]
    /\ UNCHANGED <<handlers, invoked, storeVars, qres, catalogVars, goVars>>

----------------------------------------------------------------------------
(* internal/mcp: HandleExecuteTool *)

\* Values of the arguments member of a request, as request.Params.Arguments
\* holds them after decoding: objects from key to number.
ArgumentValues ==
    {[k \in {} |-> 0], [k \in {"x", "y"} |-> IF k = "x" THEN 1 ELSE 2]}

ExecuteArguments ==
    {[malformed |-> TRUE]} \cup
    {[malformed |-> FALSE, tool_name |-> n, arguments |-> a] :
        n \in {"a", "c", "nonexistent"}, a \in ArgumentValues}

RECURSIVE JoinMembers(_, _)
JoinMembers(keys, object) ==
    IF Len(keys) = 0 THEN ""
    ELSE "\"" \o keys[1] \o "\":" \o ToString(object[keys[1]]) \o
         (IF Len(keys) = 1 THEN "" ELSE "," \o JoinMembers(Tail(keys), object))

\* json.Marshal of a map[string]any: the keys in sorted order
MarshalObject(object) ==
    "{" \o JoinMembers(SelectSeq(KeyOrder, LAMBDA k : k \in DOMAIN object), object) \o "}"

\* Faulty variant: the handler is given the whole request object
ExecuteToolInputWhole(args) ==
    [ToolName |-> args.tool_name,
     Arguments |-> "{\"arguments\":" \o MarshalObject(args.arguments) \o
                   ",\"tool_name\":\"" \o args.tool_name \o "\"}"]

\* json.Marshal of request.Params.Arguments, then json.Unmarshal into
\* ExecuteToolInput: Arguments is the raw JSON written for the member
ExecuteToolInput(args) ==
    [ToolName |-> args.tool_name, Arguments |-> MarshalObject(args.arguments)]

\* What a tool handler can return: a value, an error, or a value that
\* json.Marshal rejects.
Outcomes ==
    {[value |-> "done", err |-> Nil, marshals |-> TRUE],
     [value |-> "", err |-> "request failed", marshals |-> TRUE],
     [value |-> "chan", err |-> Nil, marshals |-> FALSE]}

\* json.Marshal of ExecuteToolOutput
MarshalExecuteToolOutput(result) == "{\"result\":\"" \o result \o "\"}"

\* HandleExecuteTool up to the call of the handler
HandleExecuteToolLookup(r, args) ==
    /\ req[r].pc = "new"
    /\ IF args.malformed
       THEN /\ req' = [req EXCEPT ![r] =
                  [@ EXCEPT !.kind = "execute", !.args = args, !.pc = "done",
                            !.ret = InvalidArguments("json: cannot unmarshal")]]
            /\ invoked' = invoked
       ELSE LET input == ExecuteToolInput(args)
                found == GetExecutableTool(input.ToolName)
            IN  IF ~found.exists
                THEN /\ req' = [req EXCEPT ![r] =
                           [@ EXCEPT !.kind = "execute", !.args = args, !.pc = "done",
                                     !.inTable = args.tool_name \in DOMAIN handlers,
                                     !.ret = ToolNotFound(input.ToolName)]]
                     /\ invoked' = invoked
                ELSE /\ req' = [req EXCEPT ![r] =
                           [@ EXCEPT !.kind = "execute", !.args = args,
                                     !.pc = "running",
                                     !.inTable = args.tool_name \in DOMAIN handlers]]
                     /\ invoked' = Append(invoked,
                           [req |-> r, name |-> input.ToolName,
                            handler |-> found.handler, arguments |-> input.Arguments])
    /\ UNCHANGED <<handlers, storeVars, qres, catalogVars, goVars>>

\* Faulty variant: the entry of the tool is taken out of the table once its
\* handler has run
HandleExecuteToolReturnConsuming(r, outcome) ==
    /\ req[r].kind = "execute"
    /\ req[r].pc = "running"
    /\ req' = [req EXCEPT ![r] =
          [@ EXCEPT !.outcome = outcome, !.pc = "done",
                    !.ret = IF outcome.err # Nil
                            THEN ToolExecutionFailed(outcome.err)
                            ELSE IF ~outcome.marshals
                            THEN MarshalResultFailed("json: unsupported type")
                            ELSE TextResult(MarshalExecuteToolOutput(outcome.value))]]
    /\ handlers' = [n \in DOMAIN handlers \ {req[r].args.tool_name} |-> handlers[n]]
    /\ UNCHANGED <<invoked, storeVars, qres, catalogVars, goVars>>

\* the handler returns, and the rest of HandleExecuteTool
HandleExecuteToolReturn(r, outcome) ==
    /\ req[r].kind = "execute"
    /\ req[r].pc = "running"
    /\ req' = [req EXCEPT ![r] =
          [@ EXCEPT !.outcome = outcome, !.pc = "done",
                    !.ret = IF outcome.err # Nil
                            THEN ToolExecutionFailed(outcome.err)
                            ELSE IF ~outcome.marshals
                            THEN MarshalResultFailed("json: unsupported type")
                            ELSE TextResult(MarshalExecuteToolOutput(outcome.value))]]
    /\ UNCHANGED <<handlers, invoked, storeVars, qres, catalogVars, goVars>>

----------------------------------------------------------------------------
(* The server: registrations into the dispatch table and requests, on a    *)
(* table that does not change while the server runs                        *)

\* the init functions of the tool files: each registers its handler under
\* the name of its tool
Registrations == {<<"a", "executeA">>, <<"b", "executeB">>}

ServedRows ==
    {Row(1, 1, 1, NullTime, "a", "first", <<1, 0>>, Nil),
     Row(2, 1, 2, NullTime, "b", "second", <<4, 3>>, "{}"),
     Row(3, 2, 2, NullTime, "c", "third", <<1, 0>>, SpacedSchema)}

InitMcp ==
    /\ tools \in {{}, ServedRows}
    /\ nextId = 4
    /\ clock = 2
    /\ tx = [t \in Txs |-> IdleTx]
    /\ txCount = 0
    /\ committedLog = <<>>
    /\ qres = [called |-> FALSE]
    /\ CatalogInit
    /\ McpInit
    /\ GoInit

NextMcp ==
    \/ \E reg \in Registrations : RegisterExecutable(reg[1], reg[2])
    \/ \E r \in Reqs, args \in SearchArguments : HandleSearchToolsDecode(r, args)
    \/ \E r \in Reqs, resp \in Responses : HandleSearchToolsEmbed(r, resp)
    \/ \E r \in Reqs, heap \in HeapOrders(tools), fault \in BOOLEAN :
           HandleSearchToolsQuery(r, heap, fault)
    \/ \E r \in Reqs, args \in ExecuteArguments : HandleExecuteToolLookup(r, args)
    \/ \E r \in Reqs, outcome \in Outcomes : HandleExecuteToolReturn(r, outcome)

SpecMcp == InitMcp /\ [][NextMcp]_vars

----------------------------------------------------------------------------
(* The server answering a search while the index command runs on the same  *)
(* table                                                                    *)

\* Faulty variant: the statement also sees the row versions that open
\* transactions have written and not committed
SnapshotDirty ==
    LET uncommitted == UNION {tx[t].writes : t \in {u \in Txs : tx[u].status = "open"}}
    IN  {r \in tools : \A w \in uncommitted : w.id # r.id} \cup uncommitted

\* The rows a statement run on the pool, outside every transaction, sees:
\* the rows committed when it starts
Snapshot == tools

\* A search served while the index command runs: FindSimilarWithScore, called
\* by the server process on its own connection.  open: the passes that have
\* written rows and not returned when the statement runs.
Search(embedding, minScore, heap) ==
    /\ ~qres.called
    /\ \E t \in Txs : tx[t].status = "open"
    /\ qres' = [called |-> TRUE, embedding |-> embedding, minScore |-> minScore,
                limit |-> DefaultMaxResults, fault |-> FALSE,
                open |-> {t \in Txs : tx[t].status = "open" /\ tx[t].writes # {}},
                ret |-> FindSimilarWithScore(Snapshot, embedding, minScore,
                                             DefaultMaxResults, heap, FALSE)]
    /\ UNCHANGED <<storeVars, catalogVars, mcpVars, goVars>>

InitServe ==
    /\ tools \in {{}, ServedRows}
    /\ nextId = 4
    /\ clock = 2
    /\ tx = [t \in Txs |-> IdleTx]
    /\ txCount = 0
    /\ committedLog = <<>>
    /\ qres = [called |-> FALSE]
    /\ CatalogInit
    /\ McpInit
    /\ GoInit

NextServe ==
    \/ \E t \in Txs, cat \in Catalogs : IndexBegin(t, cat)
    \/ \E t \in Txs, resp \in Responses : IndexStep(t, resp)
    \/ \E t \in Txs : Commit(t)
    \/ \E t \in Txs : Rollback(t)
    \/ \E heap \in HeapOrders(Snapshot) : Search(<<1, 0>>, -100, heap)

SpecServe == InitServe /\ [][NextServe]_vars

----------------------------------------------------------------------------
(* Two index commands started at the same time on the same table, each    *)
(* with its own catalog; both catalogs have the tools "a" and "b", in      *)
(* opposite orders and with different descriptions.                        *)

RacingCatalogs ==
    {<<DefA1, DefB>>, <<DefB, DefA2>>}

\* both processes have begun their transaction and read their catalog
InitRace ==
    /\ tools \in {{}, SeedRows}
    /\ nextId = 3
    /\ clock = 1
    /\ tx \in {[t \in Txs |-> [IdleTx EXCEPT !.status = "open", !.now = 1,
                                            !.catalog = cat[t], !.pos = 1]] :
                 cat \in [Txs -> RacingCatalogs]}
    /\ txCount = MaxTxns
    /\ committedLog = <<>>
    /\ qres = [called |-> FALSE]
    /\ CatalogInit
    /\ McpInit
    /\ GoInit

NextRace ==
    \/ \E t \in Txs, resp \in Responses : IndexStep(t, resp)
    \/ \E t \in Txs : Commit(t)
    \/ \E t \in Txs : Rollback(t)

SpecRace == InitRace /\ [][NextRace]_vars

----------------------------------------------------------------------------
(* The dispatch table called from several goroutines.  Each call is taken  *)
(* apart into the call, the acquisition of globalRegistry.mu, the access to *)
(* the map and the deferred release.  The assignment to a map entry is not  *)
(* one step of the machine: it reads the table and then stores it with the  *)
(* entry set.                                                               *)

\* Faulty variant: Lock does not wait
CanLockAlways == TRUE

\* sync.RWMutex: Lock waits until no goroutine holds the lock for writing
\* or reading, RLock until none holds it for writing
CanLock == mu.writer = 0 /\ mu.readers = {}
CanRLock == mu.writer = 0

ConcurrentRegistrations ==
    {<<"a", "executeA">>, <<"a", "executeA2">>, <<"b", "executeB">>}

\* the names whose RegisterExecutable call has returned
RegisteredNames ==
    {goroutines[g].name :
        g \in {h \in Goroutines : /\ goroutines[h].pc = "done"
                                  /\ goroutines[h].op = "RegisterExecutable"}}

CallRegisterExecutable(g, toolName, handler) ==
    /\ goroutines[g].pc = "idle"
    /\ goroutines' = [goroutines EXCEPT ![g] =
          [pc |-> "Lock", op |-> "RegisterExecutable", name |-> toolName,
           handler |-> handler, table |-> handlers, known |-> {},
           ret |-> [handler |-> Nil, exists |-> FALSE]]]
    /\ UNCHANGED <<mu, mcpVars, storeVars, qres, catalogVars>>

\* globalRegistry.mu.Lock()
RegisterExecutableLock(g) ==
    /\ goroutines[g].pc = "Lock"
    /\ CanLock
    /\ mu' = [mu EXCEPT !.writer = g]
    /\ goroutines' = [goroutines EXCEPT ![g].pc = "load"]
    /\ UNCHANGED <<mcpVars, storeVars, qres, catalogVars>>

\* globalRegistry.handlers[toolName] = handler, first half
RegisterExecutableLoad(g) ==
    /\ goroutines[g].pc = "load"
    /\ goroutines' = [goroutines EXCEPT ![g].pc = "store", ![g].table = handlers]
    /\ UNCHANGED <<mu, mcpVars, storeVars, qres, catalogVars>>

\* globalRegistry.handlers[toolName] = handler, second half
RegisterExecutableStore(g) ==
    /\ goroutines[g].pc = "store"
    /\ handlers' = [n \in DOMAIN goroutines[g].table \cup {goroutines[g].name} |->
                       IF n = goroutines[g].name THEN goroutines[g].handler
                       ELSE goroutines[g].table[n]]
    /\ goroutines' = [goroutines EXCEPT ![g].pc = "Unlock"]
    /\ UNCHANGED <<mu, req, invoked, storeVars, qres, catalogVars>>

\* the deferred globalRegistry.mu.Unlock() and the return
RegisterExecutableUnlock(g) ==
    /\ goroutines[g].pc = "Unlock"
    /\ mu' = [mu EXCEPT !.writer = IF @ = g THEN 0 ELSE @]
    /\ goroutines' = [goroutines EXCEPT ![g].pc = "done"]
    /\ UNCHANGED <<mcpVars, storeVars, qres, catalogVars>>

\* known: the names registered by the calls that returned before this one
\* started
CallGetExecutableTool(g, name) ==
    /\ goroutines[g].pc = "idle"
    /\ goroutines' = [goroutines EXCEPT ![g] =
          [pc |-> "RLock", op |-> "GetExecutableTool", name |-> name,
           handler |-> Nil, table |-> handlers, known |-> RegisteredNames,
           ret |-> [handler |-> Nil, exists |-> FALSE]]]
    /\ UNCHANGED <<mu, mcpVars, storeVars, qres, catalogVars>>

\* globalRegistry.mu.RLock()
GetExecutableToolRLock(g) ==
    /\ goroutines[g].pc = "RLock"
    /\ CanRLock
    /\ mu' = [mu EXCEPT !.readers = @ \cup {g}]
    /\ goroutines' = [goroutines EXCEPT ![g].pc = "read"]
    /\ UNCHANGED <<mcpVars, storeVars, qres, catalogVars>>

\* handler, exists := globalRegistry.handlers[name]
GetExecutableToolRead(g) ==
    /\ goroutines[g].pc = "read"
    /\ goroutines' = [goroutines EXCEPT ![g].pc = "RUnlock",
                                        ![g].ret = GetExecutableTool(goroutines[g].name)]
    /\ UNCHANGED <<mu, mcpVars, storeVars, qres, catalogVars>>

\* Faulty variant: GetExecutableTool returns with the read lock still held
GetExecutableToolReturnLocked(g) ==
    /\ goroutines[g].pc = "RUnlock"
    /\ goroutines' = [goroutines EXCEPT ![g].pc = "done"]
    /\ UNCHANGED <<mu, mcpVars, storeVars, qres, catalogVars>>

\* the deferred globalRegistry.mu.RUnlock() and the return
GetExecutableToolRUnlock(g) ==
    /\ goroutines[g].pc = "RUnlock"
    /\ mu' = [mu EXCEPT !.readers = @ \ {g}]
    /\ goroutines' = [goroutines EXCEPT ![g].pc = "done"]
    /\ UNCHANGED <<mcpVars, storeVars, qres, catalogVars>>

InitDispatch ==
    /\ tools = {}
    /\ nextId = 1
    /\ clock = 1
    /\ tx = [t \in Txs |-> IdleTx]
    /\ txCount = 0
    /\ committedLog = <<>>
    /\ qres = [called |-> FALSE]
    /\ CatalogInit
    /\ McpInit
    /\ GoInit

NextDispatch ==
    \/ \E g \in Goroutines, reg \in ConcurrentRegistrations :
           CallRegisterExecutable(g, reg[1], reg[2])
    \/ \E g \in Goroutines : RegisterExecutableLock(g)
    \/ \E g \in Goroutines : RegisterExecutableLoad(g)
    \/ \E g \in Goroutines : RegisterExecutableStore(g)
    \/ \E g \in Goroutines : RegisterExecutableUnlock(g)
    \/ \E g \in Goroutines, name \in Names : CallGetExecutableTool(g, name)
    \/ \E g \in Goroutines : GetExecutableToolRLock(g)
    \/ \E g \in Goroutines : GetExecutableToolRead(g)
    \/ \E g \in Goroutines : GetExecutableToolRUnlock(g)

SpecDispatch == InitDispatch /\ [][NextDispatch]_vars

----------------------------------------------------------------------------
(* execute_tool requests served by several goroutines while registrations  *)
(* go on: HandleExecuteTool calls GetExecutableTool and then, with what it  *)
(* returned, the handler.  The init function of tool "a" has run before    *)
(* the server started.                                                     *)

\* result, err := handler(ctx, input.Arguments): the call
HandlerCall(g) ==
    /\ goroutines[g].pc = "done"
    /\ goroutines[g].op = "GetExecutableTool"
    /\ goroutines[g].ret.exists
    /\ goroutines' = [goroutines EXCEPT ![g].pc = "handler"]
    /\ UNCHANGED <<mu, mcpVars, storeVars, qres, catalogVars>>

\* the handler returns, after as long as it takes
HandlerReturn(g) ==
    /\ goroutines[g].pc = "handler"
    /\ goroutines' = [goroutines EXCEPT ![g].pc = "returned"]
    /\ UNCHANGED <<mu, mcpVars, storeVars, qres, catalogVars>>

InitExecute ==
    /\ tools = {}
    /\ nextId = 1
    /\ clock = 1
    /\ tx = [t \in Txs |-> IdleTx]
    /\ txCount = 0
    /\ committedLog = <<>>
    /\ qres = [called |-> FALSE]
    /\ CatalogInit
    /\ handlers = [n \in {"a"} |-> "executeA"]
    /\ req = [r \in Reqs |-> NewReq]
    /\ invoked = <<>>
    /\ GoInit

NextExecute ==
    \/ \E g \in Goroutines, reg \in ConcurrentRegistrations :
           CallRegisterExecutable(g, reg[1], reg[2])
    \/ \E g \in Goroutines : RegisterExecutableLock(g)
    \/ \E g \in Goroutines : RegisterExecutableLoad(g)
    \/ \E g \in Goroutines : RegisterExecutableStore(g)
    \/ \E g \in Goroutines : RegisterExecutableUnlock(g)
    \/ \E g \in Goroutines, name \in Names : CallGetExecutableTool(g, name)
    \/ \E g \in Goroutines : GetExecutableToolRLock(g)
    \/ \E g \in Goroutines : GetExecutableToolRead(g)
    \/ \E g \in Goroutines : GetExecutableToolRUnlock(g)
    \/ \E g \in Goroutines : HandlerCall(g)
    \/ \E g \in Goroutines : HandlerReturn(g)

SpecExecute == InitExecute /\ [][NextExecute]_vars

----------------------------------------------------------------------------
(* The query applied to table contents drawn from a pool of rows *)

RowPool ==
    {Row(1, 1, 1, NullTime, "a", "first", <<1, 0>>, Nil),
     Row(2, 1, 2, NullTime, "b", "second", <<4, 3>>, "{}"),
     Row(3, 2, 2, NullTime, "c", "third", <<1, 0>>, Nil),
     Row(4, 2, 2, NullTime, "d", "no embedding", NullVec, Nil),
     Row(5, 1, 1, 2, "a", "retired", <<1, 0>>, Nil),
     Row(6, 2, 2, NullTime, "e", "sixth", <<3, 4>>, Nil)}

QueryVectors == {<<1, 0>>, <<3, 4>>, <<-1, 0>>}
MinScores == {-100, 0, 70, 80, 99, 100}
MaxLimit == 3
Limits == (-1)..MaxLimit

InitQuery ==
    /\ tools \in {rows \in SUBSET RowPool : UniqueLiveNames(rows)}
    /\ nextId = 7
    /\ clock = 2
    /\ tx = [t \in Txs |-> IdleTx]
    /\ txCount = 0
    /\ committedLog = <<>>
    /\ qres = [called |-> FALSE]
    /\ CatalogInit
    /\ McpInit
    /\ GoInit

Query(embedding, minScore, limit, heap, fault) ==
    /\ ~qres.called
    /\ qres' = [called |-> TRUE, embedding |-> embedding, minScore |-> minScore,
                limit |-> limit, fault |-> fault,
                ret |-> FindSimilarWithScore(tools, embedding, minScore, limit, heap, fault)]
    /\ UNCHANGED <<storeVars, catalogVars, mcpVars, goVars>>

NextQuery ==
    \E embedding \in QueryVectors, minScore \in MinScores, limit \in Limits,
       heap \in HeapOrders(tools), fault \in BOOLEAN :
        Query(embedding, minScore, limit, heap, fault)

SpecQuery == InitQuery /\ [][NextQuery]_vars

\* The rows of the table that the claims call qualifying, with the score
\* computed from the definition of cosine similarity.
Similarity(a, b) == (Dot(a, b) * 100) \div (Norm(a) * Norm(b))

Qualifying ==
    {r \in tools : /\ r.deletedAt = NullTime
                   /\ r.embedding # NullVec
                   /\ Similarity(r.embedding, qres.embedding) >= qres.minScore}

Returned == {qres.ret.results[i].ID : i \in 1..Len(qres.ret.results)}

Executed == qres.called /\ ~qres.fault /\ qres.limit >= 0

\* C3: every returned row is a live row of the table with a non-null
\* embedding, carries its own score, and that score is >= minScore; no row
\* below the threshold, no soft-deleted row and no row with a null embedding
\* is returned.
ThresholdCorrectness ==
    qres.called =>
        \A i \in 1..Len(qres.ret.results) :
            LET res == qres.ret.results[i]
            IN  /\ res.RelevanceScore >= qres.minScore
                /\ \E r \in tools :
                      /\ r.id = res.ID
                      /\ r.deletedAt = NullTime
                      /\ r.embedding # NullVec
                      /\ res.Embedding = r.embedding
                      /\ res.RelevanceScore = Similarity(r.embedding, qres.embedding)

\* the table holds a soft-deleted row, a row without embedding and a row
\* below the threshold, and the query returned at least one row
ThresholdCorrectnessWitness ==
    /\ Executed
    /\ Len(qres.ret.results) >= 1
    /\ \E r \in tools : r.deletedAt # NullTime
    /\ \E r \in tools : r.embedding = NullVec
    /\ \E r \in tools : /\ r.deletedAt = NullTime /\ r.embedding # NullVec
                        /\ Similarity(r.embedding, qres.embedding) < qres.minScore

\* C4: the returned sequence is non-increasing in relevanceScore.
ScoreMonotonicity ==
    qres.called =>
        \A i \in 1..(Len(qres.ret.results) - 1) :
            qres.ret.results[i].RelevanceScore >= qres.ret.results[i + 1].RelevanceScore

\* at least three rows returned, not all with the same score
ScoreMonotonicityWitness ==
    /\ Executed
    /\ Len(qres.ret.results) >= 3
    /\ qres.ret.results[1].RelevanceScore > qres.ret.results[3].RelevanceScore

\* C5: for limit >= 0 the call returns at most limit rows.
LimitRespected ==
    (qres.called /\ qres.limit >= 0) => Len(qres.ret.results) <= qres.limit

\* more rows qualify than the limit allows, and limit rows are returned
LimitRespectedWitness ==
    /\ Executed
    /\ Cardinality(Qualifying) > qres.limit
    /\ qres.limit >= 1
    /\ Len(qres.ret.results) = qres.limit

\* limit = 0 with qualifying rows
LimitZeroWitness ==
    Executed /\ qres.limit = 0 /\ Qualifying # {}

\* C6: a call that executes returns min(limit, number of qualifying rows)
\* distinct qualifying rows, every qualifying row left out scores no higher
\* than any returned row, and when at most limit rows qualify all of them
\* are returned.
BestRowsReturned ==
    Executed =>
        /\ Returned \subseteq {r.id : r \in Qualifying}
        /\ Cardinality(Returned) = Len(qres.ret.results)
        /\ Len(qres.ret.results) =
              IF qres.limit < Cardinality(Qualifying)
              THEN qres.limit ELSE Cardinality(Qualifying)
        /\ \A r \in Qualifying :
              r.id \notin Returned =>
                  \A i \in 1..Len(qres.ret.results) :
                      Similarity(r.embedding, qres.embedding)
                          <= qres.ret.results[i].RelevanceScore
        /\ Cardinality(Qualifying) <= qres.limit
              => Returned = {r.id : r \in Qualifying}

\* a qualifying row is left out by the limit while another is returned
BestRowsReturnedWitness ==
    /\ Executed
    /\ Len(qres.ret.results) >= 1
    /\ \E r \in Qualifying :
          /\ r.id \notin Returned
          /\ Similarity(r.embedding, qres.embedding) < qres.ret.results[1].RelevanceScore

\* C7: a call that executes on a table without rows, or on a table where no
\* row reaches minScore, returns an empty sequence and a nil error.
EmptyResultNoError ==
    (Executed /\ (tools = {} \/ Qualifying = {}))
        => (qres.ret.results = <<>> /\ qres.ret.err = Nil)

\* the table has live rows with embeddings, none reaches minScore
EmptyResultNoErrorWitness ==
    /\ Executed
    /\ qres.ret.results = <<>>
    /\ qres.limit > 0
    /\ Qualifying = {}
    /\ \E r \in tools : r.deletedAt = NullTime /\ r.embedding # NullVec

----------------------------------------------------------------------------
(* The catalog: registrations of one process *)

ParameterSets ==
    {NoParameters} \cup
    {[present |-> TRUE, properties |-> ps, required |-> rq] :
        ps \in SUBSET Keys,
        rq \in {<<>>} \cup {<<k>> : k \in Keys} \cup {<<k1, k2>> : k1 \in Keys, k2 \in Keys}}

ToolDefinitions ==
    {ToolDefinition(n, "one", p) : n \in Names, p \in ParameterSets} \cup
    {ToolDefinition("", "one", NoParameters)}

InitCatalog ==
    /\ tools = {}
    /\ nextId = 1
    /\ clock = 1
    /\ tx = [t \in Txs |-> IdleTx]
    /\ txCount = 0
    /\ committedLog = <<>>
    /\ qres = [called |-> FALSE]
    /\ CatalogInit
    /\ McpInit
    /\ GoInit

NextCatalog ==
    \E tool \in ToolDefinitions : Register(tool)

SpecCatalog == InitCatalog /\ [][NextCatalog]_vars

----------------------------------------------------------------------------
(* The catalog called from several goroutines.  Register and GetAllTools    *)
(* take no lock.  registry = append(registry, tool) reads the slice, builds *)
(* the longer slice and stores it; between the read and the store another   *)
(* goroutine can read or store the variable.  The steps give the outcomes   *)
(* of the unsynchronized accesses: both appends kept in either order, or    *)
(* the append of one call overwritten by the other.                         *)

ConcurrentDefinitions ==
    {DefA1, DefB, ToolDefinition("b", "two", NoParameters),
     ToolDefinition("a", "one", [present |-> TRUE, properties |-> {}, required |-> <<"x">>])}

\* Register up to the read of registry by append; a panic ends the process
RegisterLoad(g, tool) ==
    /\ panicked = Nil
    /\ goroutines[g].pc = "idle"
    /\ LET err == Validate(tool)
       IN  IF err # Nil
           THEN /\ panicked' = "invalid tool registration: " \o tool.name \o " - " \o err
                /\ goroutines' = [goroutines EXCEPT ![g] =
                      [pc |-> "panic", op |-> "Register", tool |-> tool,
                       slice |-> <<>>, ret |-> <<>>]]
           ELSE /\ panicked' = panicked
                /\ goroutines' = [goroutines EXCEPT ![g] =
                      [pc |-> "append", op |-> "Register", tool |-> tool,
                       slice |-> registry, ret |-> <<>>]]
    /\ UNCHANGED <<registry, regCall, mu, storeVars, qres, mcpVars>>

\* the store of the appended slice into registry, and the return
RegisterAppend(g) ==
    /\ panicked = Nil
    /\ goroutines[g].pc = "append"
    /\ registry' = Append(goroutines[g].slice, goroutines[g].tool)
    /\ regCall' = [called |-> TRUE, tool |-> goroutines[g].tool,
                   before |-> goroutines[g].slice]
    /\ goroutines' = [goroutines EXCEPT ![g].pc = "done"]
    /\ UNCHANGED <<panicked, mu, storeVars, qres, mcpVars>>

\* GetAllTools called by goroutine g
GetAllToolsCall(g) ==
    /\ panicked = Nil
    /\ goroutines[g].pc = "idle"
    /\ goroutines' = [goroutines EXCEPT ![g] =
          [pc |-> "done", op |-> "GetAllTools", tool |-> NoParameters,
           slice |-> <<>>, ret |-> GetAllTools]]
    /\ UNCHANGED <<catalogVars, mu, storeVars, qres, mcpVars>>

NextCatalogRace ==
    \/ \E g \in Goroutines, tool \in ConcurrentDefinitions : RegisterLoad(g, tool)
    \/ \E g \in Goroutines : RegisterAppend(g)
    \/ \E g \in Goroutines : GetAllToolsCall(g)

SpecCatalogRace == InitCatalog /\ [][NextCatalogRace]_vars

----------------------------------------------------------------------------
(* DescribeTool called on definitions drawn from a set *)

DescribedDefinitions ==
    {ToolDefinition(n, d, p) :
        n \in {"a", ""}, d \in {"one", ""},
        p \in {NoParameters, Params1,
               [present |-> TRUE, properties |-> {}, required |-> <<>>],
               [present |-> TRUE, properties |-> {"x", "y"}, required |-> <<"y">>]}}

DescribeToolCall(g, toolDef) ==
    /\ goroutines[g].pc = "idle"
    /\ goroutines' = [goroutines EXCEPT ![g] =
          [pc |-> "done", op |-> "DescribeTool", tool |-> toolDef,
           ret |-> DescribeTool(toolDef)]]
    /\ UNCHANGED <<catalogVars, mu, storeVars, qres, mcpVars>>

NextDescribe ==
    \E g \in Goroutines, toolDef \in DescribedDefinitions : DescribeToolCall(g, toolDef)

SpecDescribe == InitCatalog /\ [][NextDescribe]_vars

\* the required/defined invariant of a definition, as the claim states it
RequiredDefined(t) ==
    t.parameters.present =>
        \A i \in 1..Len(t.parameters.required) :
            t.parameters.required[i] \in t.parameters.properties

\* C8: a Register call with a definition whose required list names a
\* parameter that is not a key of properties panics and leaves the catalog
\* as it was; a call with any other definition (no parameter schema, or all
\* required names defined) appends the definition and does not panic.
RegisterFailsFatally ==
    regCall.called =>
        IF RequiredDefined(regCall.tool)
        THEN panicked = Nil /\ registry = Append(regCall.before, regCall.tool)
        ELSE panicked # Nil /\ registry = regCall.before

\* a definition whose first required name is defined and whose second is
\* not has made Register panic, after an earlier registration succeeded
RegisterFailsFatallyWitness ==
    /\ regCall.called
    /\ panicked # Nil
    /\ Len(regCall.before) = 1
    /\ Len(regCall.tool.parameters.required) = 2
    /\ regCall.tool.parameters.required[1] \in regCall.tool.parameters.properties
    /\ regCall.tool.parameters.required[2] \notin regCall.tool.parameters.properties

----------------------------------------------------------------------------
\* the text is one of the handlers' message prefixes followed by sub
Contains(text, sub) ==
    \E prefix \in {"Tool not found: ", "Tool execution failed: ",
                   "Invalid arguments: ", "Database search failed: "} :
        text = prefix \o sub

\* C9: an execute_tool request whose tool name had no entry in the dispatch
\* table when it was looked up ends with an error result whose message
\* contains the tool name and with a nil Go error, and no handler was
\* invoked for it.
UnknownToolIsErrorResult ==
    \A r \in Reqs :
        (/\ req[r].kind = "execute"
         /\ ~req[r].args.malformed
         /\ ~req[r].inTable)
        => /\ req[r].pc = "done"
           /\ req[r].ret.result.IsError
           /\ Contains(req[r].ret.result.Text, req[r].args.tool_name)
           /\ req[r].ret.err = Nil
           /\ \A i \in 1..Len(invoked) : invoked[i].req # r

\* an unknown tool was requested while the table had an entry whose handler
\* another request had invoked
UnknownToolIsErrorResultWitness ==
    \E r \in Reqs :
        /\ req[r].kind = "execute"
        /\ req[r].pc = "done"
        /\ ~req[r].args.malformed
        /\ ~req[r].inTable
        /\ req[r].args.tool_name = "nonexistent"
        /\ DOMAIN handlers # {}
        /\ Len(invoked) = 1

\* what went wrong for a finished request, from its arguments and from what
\* the embeddings endpoint, the store, the table and the tool handler did
RequestFailed(r) ==
    \/ req[r].args.malformed
    \/ /\ req[r].kind = "search"
       /\ \/ req[r].resp.failed
          \/ Len(req[r].resp.data) # 1
          \/ req[r].fault
          \/ (req[r].args.max_results.present /\ req[r].args.max_results.value < 0)
    \/ /\ req[r].kind = "execute"
       /\ \/ ~req[r].inTable
          \/ req[r].outcome.err # Nil
          \/ ~req[r].outcome.marshals

\* C10: every finished search_tools or execute_tool request returned a nil Go
\* error, and when its arguments, the embedding call, the store query, the
\* dispatch lookup or the tool handler failed, its result is an error result
\* with a message.
NoProtocolFault ==
    \A r \in Reqs :
        req[r].pc = "done"
        => /\ req[r].ret.err = Nil
           /\ RequestFailed(r) => (req[r].ret.result.IsError /\ req[r].ret.result.Text # "")

\* a search whose store query failed and an execute whose handler returned
\* an error have both finished
NoProtocolFaultWitness ==
    \E r1 \in Reqs, r2 \in Reqs :
        /\ req[r1].kind = "search" /\ req[r1].pc = "done"
        /\ ~req[r1].args.malformed /\ req[r1].fault
        /\ req[r2].kind = "execute" /\ req[r2].pc = "done"
        /\ ~req[r2].args.malformed /\ req[r2].outcome.err # Nil

----------------------------------------------------------------------------
\* C2: among the committed rows, and among the rows any open transaction
\* sees, no two rows with deletedAt = NULL have the same name.
LiveNamesUnique ==
    /\ UniqueLiveNames(tools)
    /\ \A t \in Txs : tx[t].status = "open" => UniqueLiveNames(View(t))


\* C1: when the same name was upserted twice (in one transaction, or in a
\* committed transaction and then in another), exactly one live row has
\* that name; its id and createdAt are those the first upsert returned, and
\* its description, embedding, parameterSchema and updatedAt are those of
\* the second (the latest) upsert.  Stated for the rows each open
\* transaction sees and for the committed rows.
TwiceUpserted(rows, calls) ==
    \A i \in 1..Len(calls), j \in 1..Len(calls) :
        (/\ i < j
         /\ calls[i].name = calls[j].name
         /\ \A k \in (j + 1)..Len(calls) : calls[k].name # calls[j].name)
        => /\ Cardinality({r \in Live(rows) : r.name = calls[j].name}) = 1
           /\ \A r \in Live(rows) :
                r.name = calls[j].name
                => /\ r.id = calls[i].ID
                   /\ r.createdAt = calls[i].CreatedAt
                   /\ r.description = calls[j].description
                   /\ r.embedding = calls[j].embedding
                   /\ r.input_schema = calls[j].input_schema
                   /\ r.updatedAt = calls[j].UpdatedAt

UpsertIdempotence ==
    /\ TwiceUpserted(tools, committedLog)
    /\ \A t \in Txs :
          tx[t].status = "open" => TwiceUpserted(View(t), committedLog \o tx[t].log)

\* the same name upserted twice in one transaction with a different
\* description and a different embedding
UpsertIdempotenceWitness ==
    \E t \in Txs :
        /\ tx[t].status = "open"
        /\ Len(tx[t].log) = 2
        /\ tx[t].log[1].name = tx[t].log[2].name
        /\ tx[t].log[1].description # tx[t].log[2].description
        /\ tx[t].log[1].embedding # tx[t].log[2].embedding
        /\ \E r \in Live(View(t)) : r.name = tx[t].log[2].name

\* an upsert that updates a row committed by an earlier transaction
UpsertIdempotenceWitness2 ==
    \E t \in Txs :
        /\ tx[t].status = "open"
        /\ Len(tx[t].log) >= 1
        /\ \E i \in 1..Len(committedLog) :
              /\ committedLog[i].name = tx[t].log[1].name
              /\ committedLog[i].description # tx[t].log[1].description

\* C2 witness: a live row and a soft-deleted row of the same name, after a
\* committed index run
LiveNamesUniqueWitness ==
    /\ Len(committedLog) > 0
    /\ \E r1 \in tools, r2 \in tools :
          r1.name = r2.name /\ r1.deletedAt = NullTime /\ r2.deletedAt # NullTime

----------------------------------------------------------------------------
\* C11: every call of FindSimilarWithScore made for a search_tools request
\* has limit 5 when the caller left max_results out and minScore 0.70 when
\* the caller left min_relevance_score out, and has the caller's own value
\* for each of the two that the caller supplied.
SearchParametersPassed ==
    \A r \in Reqs : \A i \in 1..Len(req[r].calls) :
        LET call == req[r].calls[i]
            args == req[r].args
        IN  call.op = "FindSimilarWithScore" =>
              /\ call.limit = IF args.max_results.present
                              THEN args.max_results.value ELSE 5
              /\ call.minScore = IF args.min_relevance_score.present
                                 THEN args.min_relevance_score.value ELSE 70

----------------------------------------------------------------------------
\* C12: a search_tools request whose store query returned without error
\* answers, when the query gave no row, with a result that is not an error
\* and whose text is the sentence "No tools found matching ..." and not the
\* JSON object with an empty tools list; when the query gave at least one
\* row it answers with the JSON object {tools, query} of those rows.
QueryReturned(r) ==
    /\ req[r].kind = "search" /\ req[r].pc = "done"
    /\ Len(req[r].calls) = 2
    /\ ~req[r].fault /\ req[r].calls[2].limit >= 0

NoToolsFoundIsText ==
    \A r \in Reqs : QueryReturned(r) =>
        LET result == req[r].ret.result
        IN  /\ ~result.IsError
            /\ IF Len(req[r].rows) = 0
               THEN /\ result.Text = "No tools found matching: \"holidays\" with minimum relevance score of "
                                     \o Sprintf2f(req[r].calls[2].minScore)
                    /\ result.Text # "{\"tools\":[],\"query\":\"holidays\"}"
               ELSE result.Text = "{\"tools\":[" \o JoinResults(ToolSearchResults(req[r].rows))
                                  \o "],\"query\":\"holidays\"}"

NoToolsFoundIsTextWitness ==
    \E r1 \in Reqs, r2 \in Reqs :
        /\ QueryReturned(r1) /\ Len(req[r1].rows) = 0
        /\ req[r1].ret.result.Text = "No tools found matching: \"holidays\" with minimum relevance score of 0.99"
        /\ QueryReturned(r2) /\ Len(req[r2].rows) = 2

----------------------------------------------------------------------------
\* C13: an execute_tool request whose tool name is in the dispatch table
\* calls the handler registered under that name exactly once, with the JSON
\* of the arguments value of the request; and when the handler returns
\* without error the request returns {result: the handler's value}.
Dispatched(r) ==
    /\ req[r].kind = "execute" /\ ~req[r].args.malformed /\ req[r].inTable

Invocations(r) == SelectSeq(invoked, LAMBDA c : c.req = r)

ArgumentsJSON(object) ==
    IF DOMAIN object = {} THEN "{}" ELSE "{\"x\":1,\"y\":2}"

InvokedOnceUnmodified(r) ==
    /\ Len(Invocations(r)) = 1
    /\ Invocations(r)[1].name = req[r].args.tool_name
    /\ <<req[r].args.tool_name, Invocations(r)[1].handler>> \in Registrations
    /\ Invocations(r)[1].arguments = ArgumentsJSON(req[r].args.arguments)

Succeeded(r) == req[r].pc = "done" /\ req[r].outcome.err = Nil

ResultReturned(r) ==
    /\ req[r].ret.err = Nil
    /\ ~req[r].ret.result.IsError
    /\ req[r].ret.result.Text = "{\"result\":\"" \o req[r].outcome.value \o "\"}"

HandlerResultReturned ==
    \A r \in Reqs : Dispatched(r) =>
        /\ InvokedOnceUnmodified(r)
        /\ Succeeded(r) => ResultReturned(r)

\* C13, amended: the same, where the request returns {result: value} when
\* the handler's value can be encoded as JSON, and an error result
\* "Failed to marshal result: ..." when it cannot.
HandlerResultReturnedIfEncodable ==
    \A r \in Reqs : Dispatched(r) =>
        /\ InvokedOnceUnmodified(r)
        /\ Succeeded(r) /\ req[r].outcome.marshals => ResultReturned(r)
        /\ Succeeded(r) /\ ~req[r].outcome.marshals =>
              /\ req[r].ret.err = Nil
              /\ req[r].ret.result.IsError
              /\ req[r].ret.result.Text = "Failed to marshal result: json: unsupported type"

HandlerResultReturnedWitness ==
    \E r1 \in Reqs, r2 \in Reqs :
        /\ Dispatched(r1) /\ Succeeded(r1) /\ req[r1].outcome.marshals
        /\ DOMAIN req[r1].args.arguments = {"x", "y"}
        /\ Dispatched(r2) /\ Succeeded(r2) /\ ~req[r2].outcome.marshals

----------------------------------------------------------------------------
\* C14: the committed rows change only in the step in which an indexing
\* pass that has upserted every tool of its catalog commits and returns nil,
\* and that step puts all the rows the pass wrote into the table at once; a
\* step in which a pass returns an error leaves the committed rows as they
\* were and discards what the pass wrote. So a failed pass leaves the rows
\* it found, and a successful one applies all its upserts together.
Returns(t, ret) ==
    tx[t].status = "open" /\ tx'[t].status = "idle" /\ tx'[t].ret = ret

IndexPassAtomic ==
    [][/\ tools' # tools =>
            \E t \in Txs :
                /\ Returns(t, "nil")
                /\ Len(tx[t].log) = Len(tx[t].catalog)
                /\ tx[t].writes \subseteq tools'
                /\ \A r \in tools : (\A w \in tx[t].writes : w.id # r.id) => r \in tools'
                /\ committedLog' = committedLog \o tx[t].log
       /\ \A t \in Txs : Returns(t, "err") =>
            /\ tools' = tools
            /\ committedLog' = committedLog
            /\ tx'[t].writes = {}
       /\ \A t \in Txs : Returns(t, "nil") =>
            tx[t].writes \subseteq tools']_vars

\* a pass that had upserted a row returned an error, another pass committed
\* two upserts, and the table holds the rows of the committed pass only
IndexPassAtomicWitness ==
    \E t1 \in Txs, t2 \in Txs :
        /\ tx[t1].status = "idle" /\ tx[t1].ret = "err"
        /\ tx[t2].status = "idle" /\ tx[t2].ret = "nil"
        /\ Len(committedLog) = 2
        /\ nextId > 3 + Len(committedLog)
        /\ \A r \in Live(tools) : r.embedding # NullVec =>
              \E i \in 1..Len(committedLog) : committedLog[i].ID = r.id

----------------------------------------------------------------------------
\* C15: a search that runs while indexing passes are open returns rows of
\* the committed table only: every returned row is, column for column, a
\* row that was committed when the search ran, and every committed live row
\* with an embedding is returned (the search admits every score, and the
\* table has fewer rows than the limit).  With C14 the committed table is
\* the table before a pass or after its commit, so no search sees some of
\* the upserts of a pass without the others.
SameColumns(res, r) ==
    /\ res.ID = r.id /\ res.CreatedAt = r.createdAt /\ res.UpdatedAt = r.updatedAt
    /\ res.DeletedAt = r.deletedAt /\ res.Name = r.name
    /\ res.Description = r.description /\ res.Embedding = r.embedding
    /\ res.InputSchema = r.input_schema

SearchSeesCommittedRows ==
    [][(~qres.called /\ qres'.called) =>
          LET results == qres'.ret.results
          IN  /\ \A i \in 1..Len(results) : \E r \in tools : SameColumns(results[i], r)
              /\ \A r \in Live(tools) : r.embedding # NullVec =>
                    \E i \in 1..Len(results) : SameColumns(results[i], r)]_vars

\* a search ran while a pass had uncommitted upserts, returned the row another
\* pass had committed, and the open pass committed afterwards
SearchSeesCommittedRowsWitness ==
    /\ qres.called
    /\ qres.open # {}
    /\ Len(qres.ret.results) > 0
    /\ \A t \in Txs : tx[t].status = "idle" /\ tx[t].ret = "nil"
    /\ \E r \in tools : \A i \in 1..Len(qres.ret.results) : ~SameColumns(qres.ret.results[i], r)

----------------------------------------------------------------------------
\* C16: when a pass commits whose upserts have the same names,
\* descriptions, embeddings and parameter schemas, in the same order, as the
\* upserts committed last before it (the same catalog indexed again with an
\* embedding function that answers as before), the table has after the
\* commit the rows it had before it: the same ids, and for each row the same
\* createdAt, deletedAt, name, description, embedding and parameter schema.
\* No row is added; only updatedAt may differ.
UpsertInputs(log) ==
    [i \in 1..Len(log) |->
        [name |-> log[i].name, description |-> log[i].description,
         embedding |-> log[i].embedding, input_schema |-> log[i].input_schema]]

RepeatsLastRun(log) ==
    /\ Len(log) >= 1
    /\ Len(committedLog) >= Len(log)
    /\ UpsertInputs(SubSeq(committedLog, Len(committedLog) - Len(log) + 1,
                           Len(committedLog))) = UpsertInputs(log)

ExceptUpdatedAt(rows) ==
    {[id |-> r.id, createdAt |-> r.createdAt, deletedAt |-> r.deletedAt,
      name |-> r.name, description |-> r.description, embedding |-> r.embedding,
      input_schema |-> r.input_schema] : r \in rows}

IndexRerunIdempotent ==
    [][\A t \in Txs : Returns(t, "nil") /\ RepeatsLastRun(tx[t].log) =>
          /\ ExceptUpdatedAt(tools') = ExceptUpdatedAt(tools)
          /\ Cardinality(tools') = Cardinality(tools)]_vars

\* two passes over the catalog <<DefA2, DefB>> have committed one after the
\* other with the same embeddings, the second at a later time
IndexRerunIdempotentWitness ==
    /\ Len(committedLog) = 4
    /\ UpsertInputs(SubSeq(committedLog, 1, 2)) = UpsertInputs(SubSeq(committedLog, 3, 4))
    /\ committedLog[1].name # committedLog[2].name
    /\ \A t \in Txs : tx[t].status = "idle" /\ tx[t].ret = "nil"
    /\ \E r \in Live(tools) : r.updatedAt > r.createdAt
    /\ \A i \in 1..2 : /\ committedLog[i + 2].ID = committedLog[i].ID
                       /\ committedLog[i + 2].CreatedAt = committedLog[i].CreatedAt

----------------------------------------------------------------------------
\* C17: a call of GenerateEmbedding returns a vector only when the request
\* succeeded and the response holds exactly one embedding, and then returns
\* that embedding and no error; a response with no embedding or with more
\* than one gives an error and the nil vector.
EmbeddingCalls(r) ==
    {i \in 1..Len(req[r].calls) : req[r].calls[i].op = "GenerateEmbedding"}

ExactlyOneEmbedding ==
    \A r \in Reqs : \A i \in EmbeddingCalls(r) :
        LET call == req[r].calls[i]
            resp == req[r].resp
        IN  /\ call.vec # NullVec =>
                  /\ ~resp.failed /\ Len(resp.data) = 1
                  /\ call.vec = resp.data[1] /\ call.err = Nil
            /\ Len(resp.data) # 1 => call.err # Nil /\ call.vec = NullVec
            /\ call.err = Nil <=> call.vec # NullVec

ExactlyOneEmbeddingWitness ==
    \E r1 \in Reqs, r2 \in Reqs :
        /\ EmbeddingCalls(r1) # {} /\ Len(req[r1].resp.data) = 2
        /\ EmbeddingCalls(r2) # {} /\ Len(req[r2].resp.data) = 1
        /\ req[r1].ret.result.Text = "Failed to generate embedding: expected 1 embedding, got 2"

----------------------------------------------------------------------------
\* C18: under every interleaving of RegisterExecutable and GetExecutableTool
\* calls, (1) the name of every registration whose assignment is done is in
\* the table, with a handler that one of those registrations gave for that
\* name; (2) a lookup finds every name whose registration had returned when
\* the lookup started; (3) a lookup returns either not-found with the nil
\* handler or a handler that a RegisterExecutable call gave for that name;
\* and no goroutine is in the map while another writes it.
Assigned(g) ==
    /\ goroutines[g].pc \in {"Unlock", "done"}
    /\ goroutines[g].op = "RegisterExecutable"

LookedUp(g) ==
    /\ goroutines[g].pc \in {"RUnlock", "done"}
    /\ goroutines[g].op = "GetExecutableTool"

InMap(g) == goroutines[g].pc \in {"load", "store", "Unlock", "read", "RUnlock"}

DispatchTableConcurrencySafe ==
    /\ \A g \in Goroutines : Assigned(g) =>
          /\ goroutines[g].name \in DOMAIN handlers
          /\ \E h \in Goroutines :
                /\ Assigned(h) /\ goroutines[h].name = goroutines[g].name
                /\ handlers[goroutines[g].name] = goroutines[h].handler
    /\ \A g \in Goroutines : LookedUp(g) =>
          /\ goroutines[g].name \in goroutines[g].known => goroutines[g].ret.exists
          /\ IF goroutines[g].ret.exists
             THEN \E h \in Goroutines :
                     /\ Assigned(h) /\ goroutines[h].name = goroutines[g].name
                     /\ goroutines[g].ret.handler = goroutines[h].handler
             ELSE goroutines[g].ret.handler = Nil
    /\ \A g \in Goroutines, h \in Goroutines :
          g # h /\ InMap(g) /\ InMap(h) =>
              goroutines[g].op = "GetExecutableTool" /\ goroutines[h].op = "GetExecutableTool"

\* two registrations of different names and a lookup that started after one
\* of them had returned have all returned, and the lookup found its name
DispatchTableConcurrencySafeWitness ==
    \E g1 \in Goroutines, g2 \in Goroutines, g3 \in Goroutines :
        /\ goroutines[g1].pc = "done" /\ Assigned(g1)
        /\ goroutines[g2].pc = "done" /\ Assigned(g2)
        /\ goroutines[g1].name # goroutines[g2].name
        /\ goroutines[g3].pc = "done" /\ LookedUp(g3)
        /\ goroutines[g3].known = {goroutines[g1].name}
        /\ goroutines[g3].name = goroutines[g1].name
        /\ goroutines[g3].ret.exists
        /\ DOMAIN handlers = {"a", "b"}

----------------------------------------------------------------------------
\* C19: when Register calls run concurrently with each other and with
\* GetAllTools and none panics, the definition of every call that has
\* returned is in the catalog, and the catalog has one entry for each such
\* call: no append is lost.
Registered(g) ==
    goroutines[g].pc = "done" /\ goroutines[g].op = "Register"

RegisterSynchronized ==
    panicked = Nil =>
        /\ \A g \in Goroutines : Registered(g) =>
              \E i \in 1..Len(registry) : registry[i] = goroutines[g].tool
        /\ Len(registry) >= Cardinality({g \in Goroutines : Registered(g)})

----------------------------------------------------------------------------
\* C20: in the registrations of one process, a Register call that returns
\* makes GetAllTools one longer, with the registered definition last and
\* every earlier definition at the position and with the content it had; a
\* call that panics leaves GetAllTools as it was.  So GetAllTools is the
\* definitions of the calls that returned, once for each call, in the order
\* of the calls.
RegistrationOrderKept ==
    [][IF panicked' = Nil
       THEN /\ Len(GetAllTools') = Len(GetAllTools) + 1
            /\ GetAllTools'[Len(GetAllTools')] = regCall'.tool
            /\ \A i \in 1..Len(GetAllTools) : GetAllTools'[i] = GetAllTools[i]
       ELSE GetAllTools' = GetAllTools]_vars

RegistrationOrderKeptWitness ==
    /\ panicked = Nil
    /\ Len(GetAllTools) = 2
    /\ regCall.called
    /\ regCall.before = <<GetAllTools[1]>>
    /\ regCall.tool = GetAllTools[2]
    /\ GetAllTools[1].name = "b" /\ GetAllTools[2].name = "a"

----------------------------------------------------------------------------
\* C21: while no Register call has panicked, every definition in the
\* catalog has a non-empty name and no two entries of the catalog have the
\* same name.
CatalogNamesUniqueNonEmpty ==
    panicked = Nil =>
        /\ \A i \in 1..Len(registry) : registry[i].name # ""
        /\ \A i \in 1..Len(registry), j \in 1..Len(registry) :
              i # j => registry[i].name # registry[j].name

\* C21, first half alone: no entry of the catalog has an empty name
CatalogNamesNonEmpty ==
    panicked = Nil => \A i \in 1..Len(registry) : registry[i].name # ""

\* C21, second half alone: no two entries of the catalog have the same name
CatalogNamesUnique ==
    panicked = Nil =>
        \A i \in 1..Len(registry), j \in 1..Len(registry) :
            i # j => registry[i].name # registry[j].name

----------------------------------------------------------------------------
\* C22: every DescribeTool call returns Text = "Tool: {name}\nDescription:
\* {description}" and InputSchema nil when the definition has no parameter
\* schema and the JSON text of the schema otherwise; two calls with equal
\* definitions return equal descriptions; and the calls leave the catalog,
\* the dispatch table and the table of tools as they were.
Described(g) ==
    goroutines[g].pc = "done" /\ goroutines[g].op = "DescribeTool"

SchemaJSON(p) ==
    IF p.properties = {} THEN "{\"properties\":null,\"required\":null}"
    ELSE IF p.properties = {"x"}
    THEN "{\"properties\":{\"x\":{\"type\":\"string\",\"description\":\"\"}},\"required\":[\"x\"]}"
    ELSE "{\"properties\":{\"x\":{\"type\":\"string\",\"description\":\"\"}," \o
         "\"y\":{\"type\":\"string\",\"description\":\"\"}},\"required\":[\"y\"]}"

DescribeToolPure ==
    /\ \A g \in Goroutines : Described(g) =>
          LET def == goroutines[g].tool
              ret == goroutines[g].ret
          IN  /\ ret.Text = "Tool: " \o def.name \o "\nDescription: " \o def.description
              /\ ret.InputSchema = Nil <=> ~def.parameters.present
              /\ def.parameters.present => ret.InputSchema = SchemaJSON(def.parameters)
    /\ \A g \in Goroutines, h \in Goroutines :
          Described(g) /\ Described(h) /\ goroutines[g].tool = goroutines[h].tool =>
              goroutines[g].ret = goroutines[h].ret
    /\ registry = <<>> /\ panicked = Nil /\ DOMAIN handlers = {} /\ tools = {}

DescribeToolPureWitness ==
    \E g \in Goroutines, h \in Goroutines :
        /\ g # h /\ Described(g) /\ Described(h)
        /\ goroutines[g].tool = goroutines[h].tool
        /\ goroutines[g].tool.parameters.properties = {"x", "y"}
        /\ \E k \in Goroutines : Described(k) /\ ~goroutines[k].tool.parameters.present

----------------------------------------------------------------------------
\* C23: no step of an index run or of a search removes a row or changes the
\* deletedAt of a row: every row of the table is in the table after the
\* step with the same id, name and deletedAt, so the set of names of live
\* rows never shrinks; and a search returns every live row that has an
\* embedding, whether or not a catalog still has a definition of that name.
LiveNames(rows) == {r.name : r \in Live(rows)}

RowsNeverDeleted ==
    [][/\ \A r \in tools : \E n \in tools' :
             n.id = r.id /\ n.name = r.name /\ n.deletedAt = r.deletedAt
       /\ LiveNames(tools) \subseteq LiveNames(tools')
       /\ (~qres.called /\ qres'.called) =>
             \A r \in Live(tools) : r.embedding # NullVec =>
                 \E i \in 1..Len(qres'.ret.results) : qres'.ret.results[i].ID = r.id]_vars

\* after a pass has committed, over a catalog that has no tool "c", a search
\* returned the row of "c" next to a row the pass wrote
RowsNeverDeletedWitness ==
    /\ qres.called
    /\ Len(committedLog) > 0
    /\ \A i \in 1..Len(committedLog) : committedLog[i].name # "c"
    /\ \E i \in 1..Len(qres.ret.results) : qres.ret.results[i].Name = "c"
    /\ \E i \in 1..Len(qres.ret.results), j \in 1..Len(committedLog) :
          /\ qres.ret.results[i].ID = committedLog[j].ID
          /\ qres.ret.results[i].Description = committedLog[j].description

----------------------------------------------------------------------------
\* C24: of two passes that run at the same time and upsert the same names,
\* each one that has ended returned nil after its commit or returned an
\* error; and when both have ended the table has at most one live row of
\* each name, and the description, embedding and parameter schema of the
\* live row of a name the passes upserted are those of one single upsert of
\* a committed pass.
Ended(t) == tx[t].status = "idle"

RacingPassesConsistent ==
    /\ \A t \in Txs : Ended(t) => tx[t].ret \in {"nil", "err"}
    /\ (\A t \in Txs : Ended(t)) =>
          /\ UniqueLiveNames(tools)
          /\ \A r \in Live(tools) :
                (\E i \in 1..Len(committedLog) : committedLog[i].name = r.name) =>
                    \E i \in 1..Len(committedLog) :
                        /\ committedLog[i].ID = r.id
                        /\ committedLog[i].name = r.name
                        /\ committedLog[i].description = r.description
                        /\ committedLog[i].embedding = r.embedding
                        /\ committedLog[i].input_schema = r.input_schema

\* both passes have committed upserts of "a" with different descriptions and
\* different embeddings into the same row
RacingPassesConsistentWitness ==
    /\ \A t \in Txs : Ended(t) /\ tx[t].ret = "nil"
    /\ Len(committedLog) = 4
    /\ \E i \in 1..4, j \in 1..4 :
          /\ i < j
          /\ committedLog[i].name = "a" /\ committedLog[j].name = "a"
          /\ committedLog[i].ID = committedLog[j].ID
          /\ committedLog[i].description # committedLog[j].description
          /\ committedLog[i].embedding # committedLog[j].embedding

\* the passes wait for each other (each has written the row the other wants
\* next); the database ends one of them with an error
RacingPassesDeadlock ==
    \E t \in Txs, u \in Txs :
        /\ t # u /\ tx[t].status = "open" /\ tx[u].status = "open"
        /\ tx[t].pos = 2 /\ tx[u].pos = 2
        /\ Blocked(t, tx[t].catalog[2].name) /\ Blocked(u, tx[u].catalog[2].name)

----------------------------------------------------------------------------
\* C25: the calls a search_tools request has made are at most one
\* GenerateEmbedding call followed by at most one FindSimilarWithScore
\* call; after a failed embedding call there is no store call and the
\* request has returned the error result "Failed to generate embedding";
\* after a failed store call the request has returned the error result
\* "Database search failed"; neither call is repeated.
Searching(r) == req[r].kind = "search" /\ ~req[r].args.malformed

NoRetry ==
    \A r \in Reqs : Searching(r) =>
        LET calls == req[r].calls
        IN  /\ Len(calls) <= 2
            /\ Len(calls) >= 1 => calls[1].op = "GenerateEmbedding"
            /\ Len(calls) = 2 =>
                  calls[2].op = "FindSimilarWithScore" /\ calls[1].err = Nil
            /\ (Len(calls) >= 1 /\ calls[1].err # Nil) =>
                  /\ Len(calls) = 1
                  /\ req[r].pc = "done"
                  /\ req[r].ret.result.IsError
                  /\ req[r].ret.result.Text = "Failed to generate embedding: " \o calls[1].err
            /\ (Len(calls) = 2 /\ req[r].pc = "done"
                  /\ (req[r].fault \/ calls[2].limit < 0)) =>
                  /\ req[r].ret.result.IsError
                  /\ req[r].ret.result.Text = "Database search failed: db error"

NoRetryWitness ==
    \E r1 \in Reqs, r2 \in Reqs :
        /\ Searching(r1) /\ Len(req[r1].calls) = 1 /\ req[r1].resp.failed
        /\ Searching(r2) /\ Len(req[r2].calls) = 2 /\ req[r2].pc = "done" /\ req[r2].fault

----------------------------------------------------------------------------
\* C26: a step of a search_tools or execute_tool request leaves the
\* catalog, the dispatch table and the table of tools as they were; and the
\* result of a finished request is determined by its arguments and by what
\* the embeddings endpoint, the store, the dispatch table and the tool
\* handler answered to it: two finished requests that agree on these have
\* the same result, whatever requests were served before.
SameInputs(r1, r2) ==
    /\ req[r1].kind = req[r2].kind
    /\ req[r1].args = req[r2].args
    /\ req[r1].resp = req[r2].resp
    /\ req[r1].fault = req[r2].fault
    /\ req[r1].rows = req[r2].rows
    /\ req[r1].inTable = req[r2].inTable
    /\ req[r1].outcome = req[r2].outcome

ResultsDetermined ==
    \A r1 \in Reqs, r2 \in Reqs :
        (req[r1].pc = "done" /\ req[r2].pc = "done" /\ SameInputs(r1, r2)) =>
            req[r1].ret = req[r2].ret

RequestsStateless ==
    [][/\ req' # req =>
            /\ registry' = registry /\ panicked' = panicked
            /\ handlers' = handlers
            /\ tools' = tools /\ nextId' = nextId /\ tx' = tx
       /\ ResultsDetermined']_vars

\* with a tool registered and rows in the table, a search and an execution
\* have finished, and before them nothing but requests changed
RequestsStatelessWitness ==
    \E r1 \in Reqs, r2 \in Reqs :
        /\ req[r1].pc = "done" /\ req[r1].kind = "search" /\ Len(req[r1].rows) >= 1
        /\ req[r2].pc = "done" /\ req[r2].kind = "execute" /\ req[r2].inTable
        /\ req[r2].outcome.err = Nil
        /\ "a" \in DOMAIN handlers /\ tools = ServedRows

----------------------------------------------------------------------------
\* C27: the text of a search response that lists tools is the object with the
\* member tools, an array with one entry per row the store returned, in
\* the order of the rows, and the member query; the entry of a row has the
\* name, the description and the relevance score of the row, and between
\* them the member parameters with the JSON value of the row's schema
\* (its text without insignificant white space) exactly when the schema of
\* the row is not null.
EntryOf(row) ==
    "{\"name\":\"" \o row.Name \o "\",\"description\":\"" \o row.Description \o "\"" \o
    (IF row.InputSchema = Nil THEN ""
     ELSE ",\"parameters\":" \o Compact(row.InputSchema)) \o
    ",\"relevance_score\":" \o MarshalFloat(row.RelevanceScore) \o "}"

RECURSIVE EntriesOf(_)
EntriesOf(rows) ==
    IF Len(rows) = 0 THEN ""
    ELSE EntryOf(rows[1]) \o (IF Len(rows) = 1 THEN "" ELSE ",") \o EntriesOf(Tail(rows))

Listed(r) ==
    /\ req[r].kind = "search" /\ req[r].pc = "done"
    /\ Len(req[r].calls) = 2
    /\ ~req[r].fault
    /\ Len(req[r].rows) >= 1

SearchEntriesFromRows ==
    \A r \in Reqs :
        Listed(r) =>
            req[r].ret = TextResult("{\"tools\":[" \o EntriesOf(req[r].rows) \o
                                    "],\"query\":\"" \o req[r].args.query \o "\"}")

\* a response listing two rows or more, one without schema and one whose
\* schema text has white space
SearchEntriesFromRowsWitness ==
    \E r \in Reqs :
        /\ Listed(r)
        /\ Len(req[r].rows) >= 2
        /\ \E i \in 1..Len(req[r].rows) : req[r].rows[i].InputSchema = Nil
        /\ \E i \in 1..Len(req[r].rows) : req[r].rows[i].InputSchema = SpacedSchema

----------------------------------------------------------------------------
\* C28: in the step in which an indexing pass commits, the pass has made one
\* embedding call per definition of its catalog, and for every definition
\* of the catalog the table then has exactly one live row of that name,
\* with the text of DescribeTool for the definition as description, the
\* vector the embeddings endpoint returned for that definition as embedding
\* and the schema of DescribeTool for the definition as input_schema.
RowOfDefinition(t, i, rows) ==
    LET toolDef == tx[t].catalog[i]
        named == {r \in Live(rows) : r.name = toolDef.name}
    IN  /\ Cardinality(named) = 1
        /\ \A r \in named :
              /\ r.description = DescribeTool(toolDef).Text
              /\ r.embedding = tx[t].log[i].embedding
              /\ r.input_schema = DescribeTool(toolDef).InputSchema

IndexPassOutcome ==
    [][\A t \in Txs :
          Returns(t, "nil") =>
              /\ Len(tx[t].log) = Len(tx[t].catalog)
              /\ \A i \in 1..Len(tx[t].catalog) : RowOfDefinition(t, i, tools')]_vars

\* what holds instead: the row of a name has the columns of the last
\* definition of that name in the catalog
IndexPassOutcomeLastOfName ==
    [][\A t \in Txs :
          Returns(t, "nil") =>
              /\ Len(tx[t].log) = Len(tx[t].catalog)
              /\ \A i \in 1..Len(tx[t].catalog) :
                    (\A j \in (i + 1)..Len(tx[t].catalog) :
                        tx[t].catalog[j].name # tx[t].catalog[i].name)
                    => RowOfDefinition(t, i, tools')]_vars

----------------------------------------------------------------------------
\* C29: a tool name that a search of this process has returned can be
\* executed: when every registration of the process is done and a search
\* has listed a name, an execute_tool request for that name finds a handler
\* in the table and is not answered with "Tool not found".
AllRegistered == DOMAIN handlers = {reg[1] : reg \in Registrations}

SearchResultsExecutable ==
    [][\A r \in Reqs :
          (/\ req[r].pc = "new" /\ req'[r].kind = "execute"
           /\ ~req'[r].args.malformed
           /\ AllRegistered
           /\ \E q \in Reqs : Listed(q) /\ \E i \in 1..Len(req[q].rows) :
                  req[q].rows[i].Name = req'[r].args.tool_name)
          => /\ req'[r].inTable
             /\ req'[r].ret # ToolNotFound(req'[r].args.tool_name)]_vars

----------------------------------------------------------------------------
\* C30: the lock of the dispatch table is held only by a goroutine that is
\* inside RegisterExecutable or GetExecutableTool, between the acquisition
\* and the deferred release, and never by one whose tool handler runs; so
\* while handlers run and no goroutine is inside these two functions, Lock
\* and RLock do not wait, and other requests look up and run handlers and
\* registrations complete.
InRegisterExecutable(g) == goroutines[g].pc \in {"load", "store", "Unlock"}
InGetExecutableTool(g) == goroutines[g].pc \in {"read", "RUnlock"}

LockReleasedBeforeHandler ==
    /\ \A g \in Goroutines :
          /\ mu.writer = g => InRegisterExecutable(g)
          /\ g \in mu.readers => InGetExecutableTool(g)
          /\ goroutines[g].pc = "handler" => mu.writer # g /\ g \notin mu.readers
    /\ (\A g \in Goroutines : ~InRegisterExecutable(g) /\ ~InGetExecutableTool(g))
          => CanLock /\ CanRLock

\* while the handler of one request runs, the handler of another runs too
\* and a registration is inside the table
LockReleasedBeforeHandlerWitness ==
    \E g \in Goroutines, h \in Goroutines, k \in Goroutines :
        /\ g # h
        /\ goroutines[g].pc = "handler"
        /\ goroutines[h].pc = "handler"
        /\ goroutines[k].pc = "store" /\ mu.writer = k

====
